---- MODULE Spec2Model ----
(***************************************************************************)
(* Model of the nexo virtual file system core:                             *)
(*   - the patch engine        (packages/vfs/src/patch-utils.ts)           *)
(*   - the history manager     (packages/vfs/src/history-manager.ts)       *)
(*   - the file index          (packages/vfs/src/file-index.ts)            *)
(*   - the virtual file store  (packages/vfs/src/virtual-fs.ts)            *)
(*                                                                         *)
(* A content string is a sequence of one-character strings; the newline is *)
(* the character NL.  An optional value (number | undefined) is a sequence *)
(* of length at most one: << >> is undefined, <<n>> is the number n.       *)
(***************************************************************************)
EXTENDS Integers, Sequences, FiniteSets, TLC

VARIABLES
  \* patch engine harness
  pfiles, ppatch, pstage, porig, pres, pmodified, pval, pop,
  \* history manager and the editor contents it drives
  hfiles, undoStack, redoStack, currentGroupId, nextId,
  lastOp, lastRet, run, grp, hpre,
  \* file index and virtual file store
  heap, files, index, metadata, vlast, vcalls,
  \* search over the index: insertion order of the paths, last query, results
  sorder, squery, sres,
  \* the calls of loadFromLocalFiles made so far: arguments, locals, position
  loads

patchVars == <<pfiles, ppatch, pstage, porig, pres, pmodified, pval, pop>>
histVars  == <<hfiles, undoStack, redoStack, currentGroupId, nextId,
               lastOp, lastRet, run, grp, hpre>>
storeVars == <<heap, files, index, metadata, vlast, vcalls>>
searchVars == <<sorder, squery, sres>>
loadVars  == <<loads>>
vars      == <<patchVars, histVars, storeVars, searchVars, loadVars>>

(***************************************************************************)
(* Bounds of the model.                                                    *)
(***************************************************************************)
MaxLines == 2        \* lines of an initial file content
MaxOpLines == 2      \* lines of an operation's old / new text
MaxHistorySize == 2  \* the history manager's maxHistorySize option
MaxIds == 3          \* ids generateId hands out to history entries and groups
MaxHistLines == 3    \* lines of a content the recorded editor works on
MaxCalls == 4        \* calls made on the virtual file store
MaxSearchFiles == 3  \* files in the store that is searched
MaxCapIds == 4       \* ids handed out when the history cap is exercised
MaxEntries == 2      \* entries handed to one bulk load
MaxLoads == 2        \* calls of the bulk load on one store

\* a file of this size or more is loaded without its text
MaxTextSize == 1048576

(***************************************************************************)
(* Strings, arrays                                                         *)
(***************************************************************************)
NL == "\n"
Undefined == << >>
Some(x) == <<x>>
IsDef(o) == o # << >>
\* JavaScript's  o ?? d
OrElse(o, d) == IF o = << >> THEN d ELSE o[1]

Max(a, b) == IF a > b THEN a ELSE b
Min(a, b) == IF a < b THEN a ELSE b

\* index of the first NL of s, 0 when there is none
RECURSIVE FirstNL(_, _)
FirstNL(s, i) ==
  IF i > Len(s) THEN 0
  ELSE IF s[i] = NL THEN i ELSE FirstNL(s, i + 1)

\* String.prototype.split("\n")
RECURSIVE Split(_)
Split(s) ==
  LET i == FirstNL(s, 1) IN
  IF i = 0 THEN <<s>>
  ELSE <<SubSeq(s, 1, i - 1)>> \o Split(SubSeq(s, i + 1, Len(s)))

\* Array.prototype.join("\n")
RECURSIVE Join(_)
Join(ls) ==
  IF Len(ls) = 0 THEN << >>
  ELSE IF Len(ls) = 1 THEN ls[1]
  ELSE ls[1] \o <<NL>> \o Join(Tail(ls))

\* relative index clamping of Array.prototype.slice / splice
Clamp(k, len) == IF k < 0 THEN Max(len + k, 0) ELSE Min(k, len)

\* Array.prototype.slice(start, end), 0-based, end exclusive
Slice(arr, start, end) ==
  LET s == Clamp(start, Len(arr))
      e == Clamp(end, Len(arr))
  IN  SubSeq(arr, s + 1, e)

\* Array.prototype.splice(start, deleteCount, ...items): the array afterwards
Splice(arr, start, deleteCount, items) ==
  LET s == Clamp(start, Len(arr))
      d == Min(Max(deleteCount, 0), Len(arr) - s)
  IN  SubSeq(arr, 1, s) \o items \o SubSeq(arr, s + d + 1, Len(arr))

Reverse(s) == [i \in 1..Len(s) |-> s[Len(s) + 1 - i]]

SeqRange(s) == {s[i] : i \in 1..Len(s)}

\* all sequences over S of length 0..n
SeqsUpTo(S, n) == UNION {[1..k -> S] : k \in 0..n}

(***************************************************************************)
(* Patch engine: applyOperation                                            *)
(***************************************************************************)
PatchOperation(id, type, filePath, startLine, endLine, oldContent, newContent) ==
  [id |-> id, type |-> type, filePath |-> filePath,
   startLine |-> startLine, endLine |-> endLine,
   oldContent |-> oldContent, newContent |-> newContent]

PatchError(operationId, type, expected, actual) ==
  [operationId |-> operationId, type |-> type,
   expected |-> expected, actual |-> actual]

\* case "insert" of applyOperation
applyInsert(content, operation) ==
  LET lines    == Split(content)
      insertAt == OrElse(operation.startLine, Len(lines) + 1) - 1
      newLines == Split(operation.newContent)
  IN  [success |-> TRUE,
       content |-> Join(Splice(lines, insertAt, 0, newLines)),
       error   |-> Undefined]

\* the content validation shared by the "delete" and "replace" cases
rangeText(content, operation) ==
  LET lines == Split(content)
      start == OrElse(operation.startLine, 1) - 1
      end   == OrElse(operation.endLine, OrElse(operation.startLine, 1))
  IN  Join(Slice(lines, start, end))

\* a delete / replace that reports the mismatch but splices all the same
applyDeleteReplaceForced(content, operation) ==
  [success |-> rangeText(content, operation) = operation.oldContent,
   content |-> Join(Splice(Split(content), OrElse(operation.startLine, 1) - 1,
                           1, Split(operation.newContent))),
   error   |-> IF rangeText(content, operation) = operation.oldContent
               THEN Undefined
               ELSE Some(PatchError(operation.id, "content-mismatch",
                                    Some(operation.oldContent),
                                    Some(rangeText(content, operation))))]

\* cases "delete" and "replace" of applyOperation
applyDeleteReplace(content, operation) ==
  LET lines         == Split(content)
      start         == OrElse(operation.startLine, 1) - 1
      end           == OrElse(operation.endLine, OrElse(operation.startLine, 1))
      deleteCount   == end - start
      actualContent == rangeText(content, operation)
      newLines      == IF operation.type = "delete" THEN << >>
                       ELSE Split(operation.newContent)
  IN  IF actualContent # operation.oldContent
      THEN [success |-> FALSE,
            content |-> content,
            error   |-> Some(PatchError(operation.id, "content-mismatch",
                                        Some(operation.oldContent),
                                        Some(actualContent)))]
      ELSE [success |-> TRUE,
            content |-> Join(Splice(lines, start, deleteCount, newLines)),
            error   |-> Undefined]

applyOperation(content, operation) ==
  CASE operation.type = "insert" -> applyInsert(content, operation)
    [] operation.type \in {"delete", "replace"} ->
         applyDeleteReplace(content, operation)
    [] operation.type = "move" ->
         applyDeleteReplace(content, [operation EXCEPT !.type = "replace"])

(***************************************************************************)
(* Patch engine: applyPatch                                                *)
(***************************************************************************)
Patch(operations, status) == [operations |-> operations, status |-> status]

\* keys of operationsByFile, in Map insertion order
RECURSIVE filePathsOf(_)
filePathsOf(ops) ==
  IF Len(ops) = 0 THEN << >>
  ELSE LET rest == filePathsOf(SubSeq(ops, 1, Len(ops) - 1))
           p    == ops[Len(ops)].filePath
       IN  IF p \in SeqRange(rest) THEN rest ELSE Append(rest, p)

operationsOf(ops, filePath) == SelectSeq(ops, LAMBDA o : o.filePath = filePath)

sortKey(op) == OrElse(op.startLine, 0)

\* one step of a stable sort by descending start line
RECURSIVE insertDescending(_, _)
insertDescending(sorted, op) ==
  IF Len(sorted) = 0 THEN <<op>>
  ELSE IF sortKey(sorted[1]) < sortKey(op) THEN <<op>> \o sorted
  ELSE <<sorted[1]>> \o insertDescending(Tail(sorted), op)

\* the operations left in the order the patch lists them
listedOrder(ops) == ops

\* [...operations].sort((a, b) => bLine - aLine)   (Array.prototype.sort is stable)
RECURSIVE sortedOps(_)
sortedOps(ops) ==
  IF Len(ops) = 0 THEN << >>
  ELSE insertDescending(sortedOps(SubSeq(ops, 1, Len(ops) - 1)), ops[Len(ops)])

\* the body of the loop "for (const op of sortedOps)": the content and the
\* errors once applyOperation has returned `result`
afterOperation(content, errors, result) ==
  IF result.success
  THEN [content |-> result.content, errors |-> errors]
  ELSE [content |-> content, errors |-> errors \o result.error]

\* the loop "for (const op of sortedOps)" of applyPatch; st holds the content
\* and the errors so far
RECURSIVE applyEach(_, _)
applyEach(st, ops) ==
  IF Len(ops) = 0 THEN st
  ELSE applyEach(afterOperation(st.content, st.errors,
                                applyOperation(st.content, ops[1])),
                 Tail(ops))

fileNotFoundErrors(ops) ==
  [i \in 1..Len(ops) |->
     PatchError(ops[i].id, "file-not-found", Undefined, Undefined)]

\* fileContents.set(filePath, content) after the operations of a file
fileProcessed(acc, filePath, r) ==
  [fileContents |-> Append(acc.fileContents, <<filePath, r.content>>),
   errors       |-> r.errors]

\* one iteration of "for (const [filePath, operations] of operationsByFile)"
processFile(acc, filePath, operations, fs) ==
  LET missing       == filePath \notin DOMAIN fs
      hasInsertOnly == \A i \in 1..Len(operations) : operations[i].type = "insert"
  IN  IF missing /\ ~hasInsertOnly
      THEN [acc EXCEPT !.errors = @ \o fileNotFoundErrors(operations)]
      ELSE fileProcessed(acc, filePath,
             applyEach([content |-> IF missing THEN << >> ELSE fs[filePath],
                        errors  |-> acc.errors],
                       sortedOps(operations)))

\* the loop "for (const [filePath, operations] of operationsByFile)"
RECURSIVE applyByFile(_, _, _, _)
applyByFile(paths, ops, fs, acc) ==
  IF Len(paths) = 0 THEN acc
  ELSE applyByFile(Tail(paths), ops, fs,
                   processFile(acc, paths[1], operationsOf(ops, paths[1]), fs))

\* a patch result that writes every processed file even when an operation failed
patchResultWritesAnyway(r) ==
  [success |-> Len(r.errors) = 0,
   status |-> IF Len(r.errors) = 0 THEN "applied" ELSE "failed",
   writes |-> r.fileContents,
   affectedFiles |-> [i \in 1..Len(r.fileContents) |-> r.fileContents[i][1]],
   errors |-> r.errors]

\* the end of applyPatch: the result, the calls of setFileContent it makes
\* (writes, in order) and the status it leaves on the patch
patchResult(r) ==
  IF Len(r.errors) = 0
  THEN [success |-> TRUE, status |-> "applied",
        writes |-> r.fileContents,
        affectedFiles |-> [i \in 1..Len(r.fileContents) |-> r.fileContents[i][1]],
        errors |-> << >>]
  ELSE [success |-> FALSE, status |-> "failed",
        writes |-> << >>, affectedFiles |-> << >>,
        errors |-> r.errors]

applyPatch(patch, fs) ==
  patchResult(applyByFile(filePathsOf(patch.operations), patch.operations, fs,
                          [fileContents |-> << >>, errors |-> << >>]))

\* the effect of the calls of setFileContent on the caller's contents
RECURSIVE writeAll(_, _)
writeAll(fs, writes) ==
  IF Len(writes) = 0 THEN fs
  ELSE LET p == writes[1][1]
           c == writes[1][2]
       IN  writeAll([q \in DOMAIN fs \cup {p} |-> IF q = p THEN c ELSE fs[q]],
                    Tail(writes))

(***************************************************************************)
(* Patch engine: createReversePatch                                        *)
(***************************************************************************)
reverseType(type) ==
  IF type = "insert" THEN "delete"
  ELSE IF type = "delete" THEN "insert" ELSE "replace"

reverseOperation(op) ==
  [op EXCEPT !.id = <<"rev">> \o op.id,
             !.type = reverseType(op.type),
             !.oldContent = op.newContent,
             !.newContent = op.oldContent]

createReversePatch(patch) ==
  Patch(Reverse([i \in 1..Len(patch.operations) |->
                   reverseOperation(patch.operations[i])]),
        "pending")

(***************************************************************************)
(* Patch engine: line diff                                                 *)
(***************************************************************************)
\* the DP table of computeLCS
RECURSIVE lcsLength(_, _, _, _)
lcsLength(a, b, i, j) ==
  IF i = 0 \/ j = 0 THEN 0
  ELSE IF a[i] = b[j] THEN lcsLength(a, b, i - 1, j - 1) + 1
  ELSE Max(lcsLength(a, b, i - 1, j), lcsLength(a, b, i, j - 1))

\* the backtracking loop of computeLCS (lcs.unshift builds the result front first)
RECURSIVE lcsBacktrack(_, _, _, _)
lcsBacktrack(a, b, i, j) ==
  IF ~(i > 0 /\ j > 0) THEN << >>
  ELSE IF a[i] = b[j] THEN Append(lcsBacktrack(a, b, i - 1, j - 1), a[i])
  ELSE IF lcsLength(a, b, i - 1, j) > lcsLength(a, b, i, j - 1)
       THEN lcsBacktrack(a, b, i - 1, j)
       ELSE lcsBacktrack(a, b, i, j - 1)

\* a longest common subsequence that finds no common line
noCommonLines(a, b) == << >>

computeLCS(a, b) == lcsBacktrack(a, b, Len(a), Len(b))

LineDiffChange(type, oldStart, oldEnd, newStart, newEnd) ==
  [type |-> type, oldStart |-> oldStart, oldEnd |-> oldEnd,
   newStart |-> newStart, newEnd |-> newEnd]

\* while (k < arr.length && (lcsIdx >= lcs.length || arr[k] !== lcs[lcsIdx])) k++
\* with 0-based k; the value of k when the loop ends
\* an inner loop that never advances its cursor
skipNothing(arr, k, lcs, lcsIdx) == k

RECURSIVE skipToLcs(_, _, _, _)
skipToLcs(arr, k, lcs, lcsIdx) ==
  IF k < Len(arr) /\ (lcsIdx >= Len(lcs) \/ arr[k + 1] # lcs[lcsIdx + 1])
  THEN skipToLcs(arr, k + 1, lcs, lcsIdx)
  ELSE k

\* one iteration of the main loop of computeLineDiff, cursors 0-based
walkStep(original, modified, lcs, st) ==
  LET i == st.i
      j == st.j
      lcsIdx == st.lcsIdx
  IN
  IF lcsIdx < Len(lcs) /\ i < Len(original) /\ original[i + 1] = lcs[lcsIdx + 1]
  THEN
    IF j < Len(modified) /\ modified[j + 1] = lcs[lcsIdx + 1]
    THEN [st EXCEPT !.i = i + 1, !.j = j + 1, !.lcsIdx = lcsIdx + 1]
    ELSE LET j2 == skipToLcs(modified, j, lcs, lcsIdx) IN
         [st EXCEPT !.j = j2,
            !.changes = Append(@, LineDiffChange("insert", i + 1, i, j + 1, j2))]
  ELSE IF lcsIdx < Len(lcs) /\ j < Len(modified) /\ modified[j + 1] = lcs[lcsIdx + 1]
  THEN LET i2 == skipToLcs(original, i, lcs, lcsIdx) IN
       [st EXCEPT !.i = i2,
          !.changes = Append(@, LineDiffChange("delete", i + 1, i2, j + 1, j))]
  ELSE
    LET oldStart == i + 1
        newStart == j + 1
        i2 == skipToLcs(original, i, lcs, lcsIdx)
        j2 == skipToLcs(modified, j, lcs, lcsIdx)
        type == IF i2 > oldStart - 1 /\ j2 > newStart - 1 THEN "replace"
                ELSE IF i2 > oldStart - 1 THEN "delete" ELSE "insert"
    IN  IF i2 > oldStart - 1 \/ j2 > newStart - 1
        THEN [st EXCEPT !.i = i2, !.j = j2,
                !.changes = Append(@, LineDiffChange(type, oldStart, i2, newStart, j2))]
        ELSE [st EXCEPT !.i = i2, !.j = j2]

\* the main loop of computeLineDiff; it is cut after `fuel` iterations, and
\* the result says whether the loop condition had become false by then
RECURSIVE walk(_, _, _, _, _)
walk(original, modified, lcs, st, fuel) ==
  IF ~(st.i < Len(original) \/ st.j < Len(modified))
  THEN [changes |-> st.changes, finished |-> TRUE]
  ELSE IF fuel = 0 THEN [changes |-> st.changes, finished |-> FALSE]
  ELSE walk(original, modified, lcs,
            walkStep(original, modified, lcs, st), fuel - 1)

RECURSIVE mergeInto(_, _)
mergeInto(merged, changes) ==
  IF Len(changes) = 0 THEN merged
  ELSE
    LET prev == merged[Len(merged)]
        curr == changes[1]
    IN  IF prev.type = curr.type /\ prev.oldEnd = curr.oldStart - 1
           /\ prev.newEnd = curr.newStart - 1
        THEN mergeInto([merged EXCEPT ![Len(merged)] =
                          [prev EXCEPT !.oldEnd = curr.oldEnd,
                                       !.newEnd = curr.newEnd]],
                       Tail(changes))
        ELSE mergeInto(Append(merged, curr), Tail(changes))

mergeAdjacentChanges(changes) ==
  IF Len(changes) = 0 THEN changes
  ELSE mergeInto(<<changes[1]>>, Tail(changes))

\* iterations after which the walk is cut: more than any terminating walk needs
walkFuel(original, modified) == 2 * (Len(original) + Len(modified)) + 2

diffWalk(original, modified) ==
  walk(original, modified, computeLCS(original, modified),
       [i |-> 0, j |-> 0, lcsIdx |-> 0, changes |-> << >>],
       walkFuel(original, modified))

computeLineDiff(original, modified) ==
  mergeAdjacentChanges(diffWalk(original, modified).changes)

\* the operation generateLinePatches builds for one change
changeOperation(filePath, originalLines, modifiedLines, change, k) ==
  LET id == <<"gen", ToString(k)>> IN
  CASE change.type = "delete" ->
         PatchOperation(id, "delete", filePath,
           Some(change.oldStart), Some(change.oldEnd),
           Join(Slice(originalLines, change.oldStart - 1, change.oldEnd)), << >>)
    [] change.type = "insert" ->
         PatchOperation(id, "insert", filePath,
           Some(change.newStart), Undefined,
           << >>, Join(Slice(modifiedLines, change.newStart - 1, change.newEnd)))
    [] change.type = "replace" ->
         PatchOperation(id, "replace", filePath,
           Some(change.oldStart), Some(change.oldEnd),
           Join(Slice(originalLines, change.oldStart - 1, change.oldEnd)),
           Join(Slice(modifiedLines, change.newStart - 1, change.newEnd)))

generateLinePatches(filePath, originalContent, modifiedContent) ==
  LET originalLines == Split(originalContent)
      modifiedLines == Split(modifiedContent)
      diff          == computeLineDiff(originalLines, modifiedLines)
  IN  [k \in 1..Len(diff) |->
         changeOperation(filePath, originalLines, modifiedLines, diff[k], k)]

(***************************************************************************)
(* Patch engine: validatePatch                                             *)
(***************************************************************************)
PatchResolution(id, type) == [id |-> id, type |-> type]

PatchConflict(operationId, filePath, line, type, currentContent, expectedContent, resolutions) ==
  [operationId |-> operationId, filePath |-> filePath, line |-> line,
   type |-> type, currentContent |-> currentContent,
   expectedContent |-> expectedContent, resolutions |-> resolutions]

skipResolution == PatchResolution(<<"skip">>, "skip")
forceResolution == PatchResolution(<<"force">>, "force-apply")

\* the loop that looks for the old text elsewhere: the first 0-based index i
\* whose segment of oldLength lines equals oldContent, -1 when there is none
RECURSIVE foundAt(_, _, _, _)
foundAt(lines, oldLength, oldContent, i) ==
  IF ~(i < Len(lines) - oldLength + 1) THEN -1
  ELSE IF Join(Slice(lines, i, i + oldLength)) = oldContent THEN i
  ELSE foundAt(lines, oldLength, oldContent, i + 1)

\* the resolutions of a content-changed conflict; the id relocate-n is <<"relocate", n>>
relocations(found) ==
  IF found = -1 THEN <<skipResolution, forceResolution>>
  ELSE <<skipResolution, forceResolution,
         PatchResolution(<<"relocate", found + 1>>, "merge")>>

\* the content check of a replace / delete whose start line is in range
changedConflict(op, lines, actualContent) ==
  IF actualContent # op.oldContent
  THEN <<PatchConflict(op.id, op.filePath, op.startLine, "content-changed",
                       actualContent, op.oldContent,
                       relocations(foundAt(lines, Len(Split(op.oldContent)),
                                           op.oldContent, 0)))>>
  ELSE << >>

\* the checks made on an operation whose file exists
rangeConflict(op, lines) ==
  IF ~IsDef(op.startLine) THEN << >>
  ELSE IF op.startLine[1] < 1 \/ op.startLine[1] > Len(lines) + 1
  THEN <<PatchConflict(op.id, op.filePath, op.startLine, "line-deleted",
                       << >>, op.oldContent,
                       <<skipResolution, forceResolution>>)>>
  ELSE IF op.type \in {"replace", "delete"}
  THEN changedConflict(op, lines,
         Join(Slice(lines, op.startLine[1] - 1,
                    OrElse(op.endLine, op.startLine[1]))))
  ELSE << >>

\* the conflicts one pass of the loop of validatePatch pushes
conflictsOf(op, fs) ==
  IF op.filePath \notin DOMAIN fs
  THEN IF op.type # "insert"
       THEN <<PatchConflict(op.id, op.filePath, Undefined, "content-changed",
                            << >>, op.oldContent, <<skipResolution>>)>>
       ELSE << >>
  ELSE rangeConflict(op, Split(fs[op.filePath]))

RECURSIVE allConflicts(_, _)
allConflicts(ops, fs) ==
  IF Len(ops) = 0 THEN << >>
  ELSE conflictsOf(ops[1], fs) \o allConflicts(Tail(ops), fs)

PatchValidation(conflicts) ==
  [isValid |-> Len(conflicts) = 0,
   canApply |-> \A i \in 1..Len(conflicts) : Len(conflicts[i].resolutions) > 0,
   conflicts |-> conflicts]

\* validatePatch(patch, getFileContent)
validatePatch(patch, fs) == PatchValidation(allConflicts(patch.operations, fs))

(***************************************************************************)
(* Inputs of the patch engine                                              *)
(***************************************************************************)
LineSet == {<<"a">>, <<"b">>}
FileLineSet == LineSet \cup {<< >>}

\* contents without empty lines, contents with them, operation texts
LineTexts == {Join(ls) : ls \in SeqsUpTo(LineSet, MaxLines)}
FileTexts == {Join(ls) : ls \in SeqsUpTo(FileLineSet, MaxLines)}
OpTexts   == {Join(ls) : ls \in SeqsUpTo(LineSet, MaxOpLines)}

NewTexts  == {Join(ls) : ls \in SeqsUpTo({<<"b">>}, MaxOpLines)}

\* declared start / end lines: absent, or 1 .. one past the longest content
OptLines == {Undefined} \cup {Some(n) : n \in 1..(MaxLines + 1)}

\* a single operation on /f; an insert carries no old text and a delete no
\* new text, as in the operations generateLinePatches builds
WideOp(t, s, e, o, n) ==
  PatchOperation(<<"1">>, t, "/f", s, e,
                 IF t = "insert" THEN << >> ELSE o,
                 IF t = "delete" THEN << >> ELSE n)

WideOpOk(t, o, n) ==
  /\ t = "insert" => o = << >>
  /\ t = "delete" => n = << >>

\* a one-line operation on either file, for patches of two operations
NarrowOp(id, t, f, s, o) ==
  PatchOperation(id, t, f, Some(s), Undefined,
                 IF t = "insert" THEN << >> ELSE o,
                 IF t = "delete" THEN << >> ELSE <<"b">>)

NarrowOpOk(t, o) == t = "insert" => o = <<"a">>

OpTypes == {"insert", "delete", "replace", "move"}

\* contents of the caller's files: a function on the paths that exist
FilesOf(F, G) ==
  {[p \in {"/f"} |-> c] : c \in F} \cup {[p \in {"/g"} |-> c] : c \in G}
  \cup {[p \in {"/f", "/g"} |-> IF p = "/f" THEN c ELSE d] : c \in F, d \in G}
  \cup {[p \in {} |-> << >>]}

NoResult ==
  [success |-> FALSE, status |-> "pending", writes |-> << >>,
   affectedFiles |-> << >>, errors |-> << >>]

(***************************************************************************)
(* Patch engine harness: a patch is built (by hand or by the line diff),   *)
(* applied through the accessors, and its reverse applied after it.        *)
(***************************************************************************)
HistIdle ==
  /\ hfiles = << >> /\ undoStack = << >> /\ redoStack = << >>
  /\ currentGroupId = Undefined /\ nextId = 1
  /\ lastOp = "none" /\ lastRet = << >> /\ run = << >> /\ grp = << >>
  /\ hpre = << >>

StoreIdle ==
  /\ heap = << >> /\ files = << >> /\ index = << >>
  /\ metadata = << >> /\ vlast = << >> /\ vcalls = 0
  /\ sorder = << >> /\ squery = << >> /\ sres = << >>
  /\ loads = << >>

PatchInit ==
  /\ \/ /\ pfiles \in FilesOf(FileTexts, {})
        /\ \E t \in OpTypes \ {"move"}, s \in OptLines, e \in OptLines,
              o \in OpTexts, n \in NewTexts :
             /\ WideOpOk(t, o, n)
             /\ ppatch = Patch(<<WideOp(t, s, e, o, n)>>, "pending")
     \/ /\ pfiles \in FilesOf(LineTexts, {<<"a">>})
        /\ \E t1 \in OpTypes, t2 \in OpTypes, f1 \in {"/f", "/g"}, f2 \in {"/f", "/g"},
              s1 \in 1..MaxLines, s2 \in 1..MaxLines,
              o1 \in LineSet, o2 \in LineSet :
             /\ NarrowOpOk(t1, o1) /\ NarrowOpOk(t2, o2)
             /\ ppatch = Patch(<<NarrowOp(<<"1">>, t1, f1, s1, o1),
                                 NarrowOp(<<"2">>, t2, f2, s2, o2)>>, "pending")
     \/ /\ pfiles \in FilesOf(FileTexts, {})
        /\ ppatch = Patch(<< >>, "pending")
  /\ pstage = "pending"
  /\ porig = pfiles
  /\ pres = NoResult
  /\ pmodified = << >>
  /\ pval = << >>
  /\ pop = << >>
  /\ HistIdle /\ StoreIdle

\* applyPatch(patch, getFileContent, setFileContent)
PApply ==
  /\ pstage \in {"pending", "diffed"}
  /\ \E r \in {applyPatch(ppatch, pfiles)} :
       /\ pres' = r
       /\ pfiles' = writeAll(pfiles, r.writes)
       /\ ppatch' = [ppatch EXCEPT !.status = r.status]
  /\ pstage' = IF pstage = "pending" THEN "applied" ELSE "diffapplied"
  /\ UNCHANGED <<porig, pmodified, pval, pop, histVars, storeVars, searchVars, loadVars>>

\* applyPatch(createReversePatch(patch), getFileContent, setFileContent)
PReverse ==
  /\ pstage = "applied"
  /\ pres.success
  /\ \E r \in {applyPatch(createReversePatch(ppatch), pfiles)} :
       /\ pres' = r
       /\ pfiles' = writeAll(pfiles, r.writes)
  /\ pstage' = "reversed"
  /\ UNCHANGED <<ppatch, porig, pmodified, pval, pop, histVars, storeVars, searchVars, loadVars>>

\* createPatch(name, description, generateLinePatches(path, original, modified))
PDiff ==
  /\ pstage = "pending"
  /\ Len(ppatch.operations) = 0
  /\ "/f" \in DOMAIN pfiles
  /\ \E modified \in FileTexts :
       /\ pmodified' = modified
       /\ ppatch' = Patch(generateLinePatches("/f", pfiles["/f"], modified),
                          "pending")
  /\ pstage' = "diffed"
  /\ UNCHANGED <<pfiles, porig, pres, pval, pop, histVars, storeVars, searchVars, loadVars>>

\* validatePatch(patch, getFileContent) on a patch not applied yet
PValidate ==
  /\ pstage = "pending"
  /\ pval' = validatePatch(ppatch, pfiles)
  /\ pstage' = "validated"
  /\ UNCHANGED <<pfiles, ppatch, porig, pres, pmodified, pop, histVars, storeVars, searchVars, loadVars>>

\* applyOperation(content, operation) on one operation of the patch and the
\* content of its file; the caller keeps the content it passed
POperate ==
  /\ pstage = "pending"
  /\ \E i \in 1..Len(ppatch.operations) :
       /\ ppatch.operations[i].filePath \in DOMAIN pfiles
       /\ pop' = [operation |-> ppatch.operations[i],
                  content |-> pfiles[ppatch.operations[i].filePath],
                  result |-> applyOperation(pfiles[ppatch.operations[i].filePath],
                                            ppatch.operations[i])]
  /\ pstage' = "operated"
  /\ UNCHANGED <<pfiles, ppatch, porig, pres, pmodified, pval, histVars, storeVars, searchVars, loadVars>>

PatchNext == PApply \/ PReverse \/ PDiff \/ PValidate \/ POperate

PatchSpec == PatchInit /\ [][PatchNext]_vars

(***************************************************************************)
(* Claims about the patch engine (PatchSpec)                               *)
(***************************************************************************)
\* the content applyPatch starts from: "" when the file is absent
contentOf(fs, p) == IF p \in DOMAIN fs THEN fs[p] ELSE << >>

touchedPaths(patch) == SeqRange(filePathsOf(patch.operations))

\* an operation as generateLinePatches builds them: a start line, an end line
\* not before it for delete / replace / move, none for insert
plainOperation(op) ==
  /\ IsDef(op.startLine)
  /\ IF op.type = "insert" THEN ~IsDef(op.endLine)
     ELSE IsDef(op.endLine) /\ op.endLine[1] >= op.startLine[1]

\* a patch of plain operations on existing files, each starting at a line of
\* its file (or, for an insert, right after the last line)
plainPatch(patch, fs) ==
  \A i \in 1..Len(patch.operations) :
    LET op == patch.operations[i] IN
    /\ plainOperation(op)
    /\ op.filePath \in DOMAIN fs
    /\ op.startLine[1] <= Len(Split(fs[op.filePath])) + 1

\* C2: round-trip law.  Whenever applyPatch(P) succeeded, applying
\* createReversePatch(P) to the resulting contents succeeds too and every file
\* P touched has its exact pre-patch content again.  Stated for the patches
\* of plain operations on files that existed before P.
C2_RoundTripLaw ==
  (pstage = "reversed" /\ plainPatch(ppatch, porig)) =>
    /\ pres.success
    /\ \A p \in touchedPaths(ppatch) \cap DOMAIN porig : pfiles[p] = porig[p]

\* C3: diff/apply law.  The operations of generateLinePatches(path, original,
\* modified), applied by applyPatch to a file holding original, all succeed and
\* leave the file holding exactly modified.
C3_DiffApplyLaw ==
  pstage = "diffapplied" =>
    /\ pres.success
    /\ pfiles["/f"] = pmodified

\* an operation of the patch fails on the contents fs: its file is missing and
\* some operation on that file is not an insert, or applyOperation rejects it
\* in the file's descending pass
SomeOperationFails(ops, fs) ==
  \E p \in {ops[i].filePath : i \in 1..Len(ops)} :
    LET group == operationsOf(ops, p) IN
    IF p \notin DOMAIN fs /\ (\E i \in 1..Len(group) : group[i].type # "insert")
    THEN TRUE
    ELSE Len(applyEach([content |-> contentOf(fs, p), errors |-> << >>],
                       sortedOps(group)).errors) > 0

\* C4: applyPatch is all-or-nothing.  If any operation of the patch fails,
\* setFileContent is called for no file, the result is a failure with at least
\* one error and the patch is 'failed'; files are written only when every
\* operation succeeded, and then the patch is 'applied'.
C4_AllOrNothing ==
  pstage \in {"applied", "diffapplied"} =>
    LET failed == SomeOperationFails(ppatch.operations, porig) IN
    /\ failed =>
         /\ pres.writes = << >>
         /\ pfiles = porig
         /\ ~pres.success
         /\ Len(pres.errors) >= 1
         /\ ppatch.status = "failed"
    /\ ~failed =>
         /\ pres.success
         /\ ppatch.status = "applied"
         /\ touchedPaths(ppatch) = {pres.writes[i][1] : i \in 1..Len(pres.writes)}
    /\ pres.writes # << >> => ~failed

\* a patch over two files was applied; the operation on one file succeeded by
\* itself and would have changed that file, the one on the other file failed,
\* and nothing was written
C4_Witness ==
  /\ pstage = "applied"
  /\ Len(ppatch.operations) = 2
  /\ ppatch.operations[1].filePath = "/f"
  /\ ppatch.operations[2].filePath = "/g"
  /\ "/f" \in DOMAIN porig
  /\ applyOperation(porig["/f"], ppatch.operations[1]).success
  /\ applyOperation(porig["/f"], ppatch.operations[1]).content # porig["/f"]
  /\ Len(pres.errors) = 1
  /\ ppatch.status = "failed"
  /\ pfiles = porig

\* the conflicts validatePatch returned for the operation with that id
conflictsFor(validation, id) ==
  SelectSeq(validation.conflicts, LAMBDA c : c.operationId = id)

\* a replace / delete on an existing file, with a start line in the file's
\* range, whose old text differs from the live text at its declared lines
staleOperation(op, fs) ==
  /\ op.type \in {"replace", "delete"}
  /\ op.filePath \in DOMAIN fs
  /\ IsDef(op.startLine)
  /\ op.startLine[1] <= Len(Split(fs[op.filePath])) + 1
  /\ rangeText(fs[op.filePath], op) # op.oldContent

\* where the old text of op is found in the live content: 0-based, -1 if nowhere
oldTextAt(op, fs) ==
  foundAt(Split(fs[op.filePath]), Len(Split(op.oldContent)), op.oldContent, 0)

\* exactly one conflict for the operation, of kind content-changed
C14_OneContentChanged(op) ==
  /\ Len(conflictsFor(pval, op.id)) = 1
  /\ conflictsFor(pval, op.id)[1].type = "content-changed"

\* a relocate resolution naming the first matching line, when there is one
C14_RelocateOffered(op) ==
  oldTextAt(op, pfiles) # -1 =>
    \E c \in SeqRange(conflictsFor(pval, op.id)) :
      \E r \in SeqRange(c.resolutions) :
        r.id = <<"relocate", oldTextAt(op, pfiles) + 1>>

\* C14: content-changed validation.  For a replace / delete operation whose
\* recorded old text differs from the live text at its declared line range,
\* validatePatch returns exactly one conflict for it, of kind content-changed;
\* canApply is false when the old text occurs nowhere in the file, and
\* otherwise the conflict offers a relocate resolution naming the first
\* matching line.
C14_ContentChanged ==
  pstage = "validated" =>
    \A i \in 1..Len(ppatch.operations) :
      staleOperation(ppatch.operations[i], pfiles) =>
        /\ C14_OneContentChanged(ppatch.operations[i])
        /\ C14_RelocateOffered(ppatch.operations[i])
        /\ oldTextAt(ppatch.operations[i], pfiles) = -1 => ~pval.canApply

\* the lines first..last of a content that exist, joined
linesBetween(lines, first, last) ==
  Join([k \in 1..Max(Min(last, Len(lines)) - first + 1, 0) |-> lines[first + k - 1]])

\* the text occupying the declared line range of an operation that declares
\* a start line; the range ends at the start line when no end line is declared
declaredText(content, op) ==
  linesBetween(Split(content), op.startLine[1], OrElse(op.endLine, op.startLine[1]))

\* applyOperation was called with a delete / replace / move whose old text
\* differs from the text at its declared range
mismatchedCall ==
  /\ pstage = "operated"
  /\ pop.operation.type \in {"delete", "replace", "move"}
  /\ IsDef(pop.operation.startLine)
  /\ declaredText(pop.content, pop.operation) # pop.operation.oldContent

\* C15: applyOperation never partially mutates on mismatch.  For a delete,
\* replace or move whose recorded old text differs from the text occupying its
\* declared line range, applyOperation returns success = false, a
\* content-mismatch error with expected = the old text and actual = the text
\* found at the range, and the content it was given.
C15_NoPartialMutation ==
  mismatchedCall =>
    /\ ~pop.result.success
    /\ IsDef(pop.result.error)
    /\ pop.result.error[1].type = "content-mismatch"
    /\ pop.result.error[1].operationId = pop.operation.id
    /\ pop.result.error[1].expected = Some(pop.operation.oldContent)
    /\ pop.result.error[1].actual = Some(declaredText(pop.content, pop.operation))
    /\ pop.result.content = pop.content

\* a move on a two-line file was rejected for its old text
C15_Witness ==
  /\ mismatchedCall
  /\ pop.operation.type = "move"
  /\ Len(Split(pop.content)) = 2
  /\ ~pop.result.success

\* a replace with a declared end line was rejected for its old text
C15_WitnessReplace ==
  /\ mismatchedCall
  /\ pop.operation.type = "replace"
  /\ IsDef(pop.operation.endLine)
  /\ pop.result.content = pop.content
  /\ pop.result.content # << >>

\* the declared line range of an operation that declares a start line; an
\* insert counts as the single line it starts at
firstLine(op) == op.startLine[1]
lastLine(op) == IF op.type = "insert" THEN op.startLine[1]
                ELSE OrElse(op.endLine, op.startLine[1])

\* the operations of the patch on one existing file declare ranges of its
\* content (an insert may start right after the last line) that are pairwise
\* disjoint
disjointRanges(ops, content) ==
  /\ \A i \in 1..Len(ops) :
       /\ IsDef(ops[i].startLine)
       /\ firstLine(ops[i]) <= lastLine(ops[i])
       /\ firstLine(ops[i]) <= Len(Split(content)) + 1
  /\ \A i \in 1..Len(ops), j \in 1..Len(ops) :
       i < j => \/ lastLine(ops[i]) < firstLine(ops[j])
                \/ lastLine(ops[j]) < firstLine(ops[i])

\* what the edits put in the place of line k of the original lines
\* (k = Len(lines) + 1 is the place after the last line)
editedLine(lines, ops, k) ==
  IF \E i \in 1..Len(ops) : firstLine(ops[i]) <= k /\ k <= lastLine(ops[i])
  THEN LET op == ops[CHOOSE i \in 1..Len(ops) :
                       firstLine(ops[i]) <= k /\ k <= lastLine(ops[i])]
       IN  IF op.type = "insert"
           THEN Split(op.newContent) \o (IF k <= Len(lines) THEN <<lines[k]>> ELSE << >>)
           ELSE IF op.type = "delete" \/ k # firstLine(op) THEN << >>
           ELSE Split(op.newContent)
  ELSE IF k <= Len(lines) THEN <<lines[k]>> ELSE << >>

\* all the edits made to the original lines at once, from line k on
RECURSIVE editedFrom(_, _, _)
editedFrom(lines, ops, k) ==
  IF k > Len(lines) + 1 THEN << >>
  ELSE editedLine(lines, ops, k) \o editedFrom(lines, ops, k + 1)

\* every delete / replace / move finds its old text at its declared range of
\* the original content
allMatch(ops, content) ==
  \A i \in 1..Len(ops) :
    ops[i].type # "insert" => declaredText(content, ops[i]) = ops[i].oldContent

\* the files of the patch all exist and its operations on each of them
\* declare pairwise disjoint ranges
disjointPatch(patch, fs) ==
  \A p \in touchedPaths(patch) :
    /\ p \in DOMAIN fs
    /\ disjointRanges(operationsOf(patch.operations, p), fs[p])

\* C20: descending-order application.  When the operations of a patch declare
\* pairwise disjoint line ranges within each file, applyPatch checks every
\* operation against the lines that occupied its declared range in the
\* content readFile returned, and the content it writes for a file is the
\* result of making all the edits to that original content.
C20_DescendingOrder ==
  (pstage = "applied" /\ disjointPatch(ppatch, porig)) =>
    /\ pres.success =
         (\A p \in touchedPaths(ppatch) :
            allMatch(operationsOf(ppatch.operations, p), porig[p]))
    /\ pres.success =>
         \A p \in touchedPaths(ppatch) :
           pfiles[p] = Join(editedFrom(Split(porig[p]),
                                       operationsOf(ppatch.operations, p), 1))

\* two operations on the two lines of one file, the one on the first line
\* listed first, were both applied, and the file changed
C20_Witness ==
  /\ pstage = "applied"
  /\ disjointPatch(ppatch, porig)
  /\ Len(ppatch.operations) = 2
  /\ ppatch.operations[1].filePath = ppatch.operations[2].filePath
  /\ firstLine(ppatch.operations[1]) < firstLine(ppatch.operations[2])
  /\ ppatch.operations[1].type = "insert"
  /\ ppatch.operations[2].type = "delete"
  /\ pres.success
  /\ pfiles # porig

(***************************************************************************)
(* History manager                                                         *)
(***************************************************************************)
\* a HistoryEntry; patch, filePath, oldContent, newContent, groupId are optional
HistoryEntry(id, type, patch, filePath, oldContent, newContent, groupId) ==
  [id |-> id, type |-> type, patch |-> patch, filePath |-> filePath,
   oldContent |-> oldContent, newContent |-> newContent, groupId |-> groupId]

\* an undo stack that is never truncated
keepAll(stack) == stack

\* addEntry: the undo stack after the push and the truncation from the oldest end
RECURSIVE shiftToCap(_)
shiftToCap(stack) ==
  IF Len(stack) > MaxHistorySize THEN shiftToCap(Tail(stack)) ELSE stack

addEntry(stack, entry) == shiftToCap(Append(stack, entry))

\* how many entries on top of `stack` carry the group id `gid`
\* (the while loop of undo / redo)
RECURSIVE sameGroupRun(_, _)
sameGroupRun(stack, gid) ==
  IF Len(stack) > 0 /\ stack[Len(stack)].groupId = gid
  THEN 1 + sameGroupRun(SubSeq(stack, 1, Len(stack) - 1), gid)
  ELSE 0

\* pops the top entry only, whatever its group
poppedTopOnly(stack) == <<stack[Len(stack)]>>

\* the entries undo / redo pops, in the order popped (top first)
poppedEntries(stack) ==
  LET firstEntry == stack[Len(stack)]
      rest       == SubSeq(stack, 1, Len(stack) - 1)
      more       == IF IsDef(firstEntry.groupId)
                    THEN sameGroupRun(rest, firstEntry.groupId) ELSE 0
  IN  [i \in 1..(1 + more) |-> stack[Len(stack) + 1 - i]]

setFileContent(fs, p, c) ==
  [q \in DOMAIN fs \cup {p} |-> IF q = p THEN c ELSE fs[q]]

\* applyPatch(patch, getFileContent, setFileContent), its result ignored
patched(fs, patch) == writeAll(fs, applyPatch(patch, fs).writes)

\* an undo that writes the content the edit left instead of the one it found
applyUndoKeepsEdit(entry, fs) ==
  IF entry.type = "apply" /\ IsDef(entry.patch)
  THEN patched(fs, createReversePatch(entry.patch[1]))
  ELSE IF entry.type = "edit" /\ IsDef(entry.filePath) /\ IsDef(entry.newContent)
  THEN setFileContent(fs, entry.filePath[1], entry.newContent[1])
  ELSE IF entry.type = "revert" /\ IsDef(entry.patch)
  THEN patched(fs, entry.patch[1])
  ELSE fs

applyUndo(entry, fs) ==
  IF entry.type = "apply" /\ IsDef(entry.patch)
  THEN patched(fs, createReversePatch(entry.patch[1]))
  ELSE IF entry.type = "edit" /\ IsDef(entry.filePath) /\ IsDef(entry.oldContent)
  THEN setFileContent(fs, entry.filePath[1], entry.oldContent[1])
  ELSE IF entry.type = "revert" /\ IsDef(entry.patch)
  THEN patched(fs, entry.patch[1])
  ELSE fs

applyRedo(entry, fs) ==
  IF entry.type = "apply" /\ IsDef(entry.patch)
  THEN patched(fs, entry.patch[1])
  ELSE IF entry.type = "edit" /\ IsDef(entry.filePath) /\ IsDef(entry.newContent)
  THEN setFileContent(fs, entry.filePath[1], entry.newContent[1])
  ELSE IF entry.type = "revert" /\ IsDef(entry.patch)
  THEN patched(fs, createReversePatch(entry.patch[1]))
  ELSE fs

RECURSIVE applyUndoEach(_, _)
applyUndoEach(entries, fs) ==
  IF Len(entries) = 0 THEN fs
  ELSE applyUndoEach(Tail(entries), applyUndo(entries[1], fs))

RECURSIVE applyRedoEach(_, _)
applyRedoEach(entries, fs) ==
  IF Len(entries) = 0 THEN fs
  ELSE applyRedoEach(Tail(entries), applyRedo(entries[1], fs))

\* the order in which redo replays the entries it popped
redoOrder(popped) == Reverse(popped)

\* an undo that pushes the entries onto the redo stack without popping them
undoCopies(us, rs, fs) ==
  IF Len(us) = 0
  THEN [undoStack |-> us, redoStack |-> rs, files |-> fs, ret |-> << >>]
  ELSE [undoStack |-> us,
        redoStack |-> rs \o poppedEntries(us),
        files     |-> applyUndoEach(poppedEntries(us), fs),
        ret       |-> poppedEntries(us)]

\* undo(getFileContent, setFileContent): stacks, contents and return value
undo(us, rs, fs) ==
  IF Len(us) = 0
  THEN [undoStack |-> us, redoStack |-> rs, files |-> fs, ret |-> << >>]
  ELSE LET undoneEntries == poppedEntries(us) IN
       [undoStack |-> SubSeq(us, 1, Len(us) - Len(undoneEntries)),
        redoStack |-> rs \o undoneEntries,
        files     |-> applyUndoEach(undoneEntries, fs),
        ret       |-> undoneEntries]

\* redo(getFileContent, setFileContent)
redo(us, rs, fs) ==
  IF Len(rs) = 0
  THEN [undoStack |-> us, redoStack |-> rs, files |-> fs, ret |-> << >>]
  ELSE LET redoneEntries == redoOrder(poppedEntries(rs)) IN
       [undoStack |-> us \o redoneEntries,
        redoStack |-> SubSeq(rs, 1, Len(rs) - Len(redoneEntries)),
        files     |-> applyRedoEach(redoneEntries, fs),
        ret       |-> redoneEntries]

(***************************************************************************)
(* History harness: an editor whose contents are read and written through  *)
(* the accessors handed to undo / redo.  Every mutating operation is       *)
(* recorded when it is performed.                                          *)
(***************************************************************************)
\* the direct edits made outside any group since construction, as long as
\* nothing else was recorded: the contents after each of them (snaps[1]: at
\* construction), how many of them are undone now, and the most that were
NoSteps == [on |-> FALSE, snaps |-> << >>, undone |-> 0, most |-> 0]

NoRun == [phase |-> "off", n |-> 0, k |-> 0, snap |-> << >>, steps |-> NoSteps]

stepsRecorded(entry, fs) ==
  IF run.steps.on /\ entry.type = "edit" /\ ~IsDef(entry.groupId)
     /\ run.steps.undone = 0
  THEN [run.steps EXCEPT !.snaps = Append(@, fs)]
  ELSE NoSteps

stepsUndone ==
  IF run.steps.on /\ run.steps.undone < Len(run.steps.snaps) - 1
  THEN [run.steps EXCEPT !.undone = @ + 1,
                         !.most = Max(@, run.steps.undone + 1)]
  ELSE NoSteps

stepsRedone ==
  IF run.steps.on /\ run.steps.undone > 0
  THEN [run.steps EXCEPT !.undone = @ - 1]
  ELSE NoSteps
NoGrp == [phase |-> "none", ids |-> {}]

\* contents the editor may start with, and contents a direct edit may leave
StartTexts == {<<"b">>, <<"a", NL, "b">>}
EditTexts == {<<"a">>, <<"b">>}

\* the patches the editor may apply: one operation on the first line of /f
HistOp(t, s, o, n) ==
  PatchOperation(<<"1">>, t, "/f", Some(s),
                 IF t = "insert" THEN Undefined ELSE Some(s),
                 IF t = "insert" THEN << >> ELSE o,
                 IF t = "delete" THEN << >> ELSE n)

HistPatches ==
  {Patch(<<HistOp(t, s, o, n)>>, "pending") :
     t \in {"insert", "delete", "replace"}, s \in {1},
     o \in LineSet, n \in {<<"b">>, <<"b", NL, "b">>}}

linesOf(fs) == Len(Split(fs["/f"]))
withinGrowth(fs) == linesOf(fs) <= MaxHistLines

entryIds(entries) == [i \in 1..Len(entries) |-> entries[i].id]

\* the sizes of the undo and the redo stack, noted before every call
StackSizes == [undo |-> Len(undoStack), redo |-> Len(redoStack)]

HistInit ==
  /\ \E c \in StartTexts : hfiles = [p \in {"/f"} |-> c]
  /\ undoStack = << >>
  /\ redoStack = << >>
  /\ currentGroupId = Undefined
  /\ nextId = 1
  /\ lastOp = "none"
  /\ lastRet = << >>
  /\ run = [NoRun EXCEPT !.phase = "ops", !.snap = hfiles,
                         !.steps = [NoSteps EXCEPT !.on = TRUE,
                                                   !.snaps = <<hfiles>>]]
  /\ grp = NoGrp
  /\ hpre = StackSizes
  /\ pfiles = << >> /\ ppatch = << >> /\ pstage = "idle" /\ porig = << >>
  /\ pres = << >> /\ pmodified = << >> /\ pval = << >>
  /\ pop = << >>
  /\ StoreIdle

\* a record* call whose addEntry leaves the redo stack alone
RecordedKeepsRedo(entry, fs, counts) ==
  /\ undoStack' = addEntry(undoStack, entry)
  /\ redoStack' = redoStack
  /\ nextId' = nextId + 1
  /\ lastOp' = "record"
  /\ hpre' = StackSizes
  /\ lastRet' = << >>
  /\ run' = NoRun
  /\ grp' = NoGrp
  /\ UNCHANGED <<currentGroupId, patchVars, storeVars, searchVars, loadVars>>

\* bookkeeping of a record* call: the run of operations counted so far, and
\* the entries recorded in the group that is open
Recorded(entry, fs, counts) ==
  /\ undoStack' = addEntry(undoStack, entry)
  /\ redoStack' = << >>
  /\ nextId' = nextId + 1
  /\ lastOp' = "record"
  /\ hpre' = StackSizes
  /\ lastRet' = << >>
  /\ run' = IF run.phase = "ops" /\ counts
            THEN [run EXCEPT !.n = @ + 1, !.snap = fs,
                             !.steps = stepsRecorded(entry, fs)]
            ELSE [NoRun EXCEPT !.steps = stepsRecorded(entry, fs)]
  /\ grp' = IF grp.phase = "open"
            THEN [grp EXCEPT !.ids = @ \cup {entry.id}]
            ELSE NoGrp
  /\ UNCHANGED <<currentGroupId, patchVars, storeVars, searchVars, loadVars>>

\* a direct edit of /f, then recordEdit(path, contentBefore, contentAfter)
HEdit ==
  /\ nextId <= MaxIds
  /\ \E c \in EditTexts :
       /\ c # hfiles["/f"]
       /\ hfiles' = setFileContent(hfiles, "/f", c)
       /\ Recorded(HistoryEntry(nextId, "edit", Undefined, Some("/f"),
                                Some(hfiles["/f"]), Some(c), currentGroupId),
                   hfiles', TRUE)

\* applyPatch(patch, ...) and, when it succeeded, recordPatchApply(patch)
HApply ==
  /\ nextId <= MaxIds
  /\ \E patch \in HistPatches :
       \E r \in {applyPatch(patch, hfiles)} :
       /\ r.success
       /\ hfiles' = writeAll(hfiles, r.writes)
       /\ withinGrowth(hfiles')
       /\ Recorded(HistoryEntry(nextId, "apply",
                                Some([patch EXCEPT !.status = r.status]),
                                Undefined, Undefined, Undefined, currentGroupId),
                   hfiles', TRUE)

\* applyPatch(createReversePatch(patch), ...) for a patch applied earlier and,
\* when it succeeded, recordPatchRevert(patch)
HRevert ==
  /\ nextId <= MaxIds
  /\ \E i \in 1..Len(undoStack) :
       /\ undoStack[i].type = "apply"
       /\ \E r \in {applyPatch(createReversePatch(undoStack[i].patch[1]), hfiles)} :
            /\ r.success
            /\ hfiles' = writeAll(hfiles, r.writes)
            /\ withinGrowth(hfiles')
            /\ Recorded(HistoryEntry(nextId, "revert", Some(undoStack[i].patch[1]),
                                     Undefined, Undefined, Undefined,
                                     currentGroupId),
                        hfiles', FALSE)

\* a startGroup that hands out the group id of the newest entry again
HStartGroupReuses ==
  /\ nextId <= MaxIds
  /\ currentGroupId' = IF Len(undoStack) > 0 /\ IsDef(undoStack[Len(undoStack)].groupId)
                       THEN undoStack[Len(undoStack)].groupId
                       ELSE Some(nextId)
  /\ nextId' = nextId + 1
  /\ lastOp' = "startGroup"
  /\ hpre' = StackSizes
  /\ lastRet' = << >>
  /\ run' = NoRun
  /\ grp' = [phase |-> "open", ids |-> {}]
  /\ UNCHANGED <<hfiles, undoStack, redoStack, patchVars, storeVars, searchVars, loadVars>>

\* startGroup(): currentGroupId = generateId()
HStartGroup ==
  /\ nextId <= MaxIds
  /\ currentGroupId' = Some(nextId)
  /\ nextId' = nextId + 1
  /\ lastOp' = "startGroup"
  /\ hpre' = StackSizes
  /\ lastRet' = << >>
  /\ run' = NoRun
  /\ grp' = [phase |-> "open", ids |-> {}]
  /\ UNCHANGED <<hfiles, undoStack, redoStack, patchVars, storeVars, searchVars, loadVars>>

\* endGroup()
HEndGroup ==
  /\ IsDef(currentGroupId)
  /\ currentGroupId' = Undefined
  /\ lastOp' = "endGroup"
  /\ hpre' = StackSizes
  /\ lastRet' = << >>
  /\ run' = NoRun
  /\ grp' = IF grp.phase = "open" /\ Cardinality(grp.ids) \in 1..MaxHistorySize
            THEN [grp EXCEPT !.phase = "closed"] ELSE NoGrp
  /\ UNCHANGED <<hfiles, undoStack, redoStack, nextId, patchVars, storeVars, searchVars, loadVars>>

\* undo(getFileContent, setFileContent)
HUndo ==
  /\ \E r \in {undo(undoStack, redoStack, hfiles)} :
       /\ withinGrowth(r.files)
       /\ undoStack' = r.undoStack
       /\ redoStack' = r.redoStack
       /\ hfiles' = r.files
       /\ lastRet' = entryIds(r.ret)
  /\ lastOp' = "undo"
  /\ hpre' = StackSizes
  /\ run' = IF run.phase = "ops" /\ run.n >= 1
            THEN [run EXCEPT !.phase = "undos", !.k = 1, !.steps = stepsUndone]
            ELSE IF run.phase = "undos" /\ run.k < run.n
            THEN [run EXCEPT !.k = @ + 1, !.steps = stepsUndone]
            ELSE [NoRun EXCEPT !.steps = stepsUndone]
  /\ grp' = IF grp.phase = "closed" THEN [grp EXCEPT !.phase = "undone"] ELSE NoGrp
  /\ UNCHANGED <<currentGroupId, nextId, patchVars, storeVars, searchVars, loadVars>>

\* redo(getFileContent, setFileContent)
HRedo ==
  /\ \E r \in {redo(undoStack, redoStack, hfiles)} :
       /\ withinGrowth(r.files)
       /\ undoStack' = r.undoStack
       /\ redoStack' = r.redoStack
       /\ hfiles' = r.files
       /\ lastRet' = entryIds(r.ret)
  /\ lastOp' = "redo"
  /\ hpre' = StackSizes
  /\ run' = IF run.phase = "undos" /\ run.k = run.n
            THEN [run EXCEPT !.phase = "redos", !.k = 1, !.steps = stepsRedone]
            ELSE IF run.phase = "redos" /\ run.k < run.n
            THEN [run EXCEPT !.k = @ + 1, !.steps = stepsRedone]
            ELSE [NoRun EXCEPT !.steps = stepsRedone]
  /\ grp' = IF grp.phase = "undone" THEN [grp EXCEPT !.phase = "redone"] ELSE NoGrp
  /\ UNCHANGED <<currentGroupId, nextId, patchVars, storeVars, searchVars, loadVars>>

\* clear()
HClear ==
  /\ undoStack' = << >>
  /\ redoStack' = << >>
  /\ currentGroupId' = Undefined
  /\ lastOp' = "clear"
  /\ hpre' = StackSizes
  /\ lastRet' = << >>
  /\ run' = NoRun
  /\ grp' = NoGrp
  /\ UNCHANGED <<hfiles, nextId, patchVars, storeVars, searchVars, loadVars>>

HistNext ==
  \/ HEdit \/ HApply \/ HRevert \/ HStartGroup \/ HEndGroup
  \/ HUndo \/ HRedo \/ HClear

HistSpec == HistInit /\ [][HistNext]_vars

(***************************************************************************)
(* Claims about the history manager (HistSpec)                             *)
(***************************************************************************)
\* ids are handed out in recording order
ascending(ids) == \A i \in 1..Len(ids), j \in 1..Len(ids) : i < j => ids[i] < ids[j]

lastEntries(stack, k) == SubSeq(stack, Len(stack) - k + 1, Len(stack))

\* C1: undo/redo symmetry.  After N recorded operations (direct edits recorded
\* with recordEdit, patches recorded with recordPatchApply after a successful
\* applyPatch, no group open), N calls of undo followed by N calls of redo
\* leave the file with the content it had right after the N operations.
C1_UndoRedoSymmetry ==
  (run.phase = "redos" /\ run.k = run.n) => hfiles = run.snap

\* C9: redo replays a group in original forward order.  When redo pops a run
\* of k >= 2 entries of one group, it applies them in the order in which they
\* were recorded, and the undo stack then ends with those k entries in that
\* same order.
C9_RedoForwardOrder ==
  (lastOp = "redo" /\ Len(lastRet) >= 2) =>
    /\ ascending(lastRet)
    /\ entryIds(lastEntries(undoStack, Len(lastRet))) = lastRet

\* the entries of `stack` outside the group that is tracked
outsideGroup(stack) == SelectSeq(stack, LAMBDA e : e.id \notin grp.ids)

\* `after` is `before` with exactly the entries of the tracked group added on top
groupOnTop(before, after) ==
  /\ Len(after) = Len(before) + Cardinality(grp.ids)
  /\ SubSeq(after, 1, Len(before)) = before
  /\ SeqRange(entryIds(lastEntries(after, Cardinality(grp.ids)))) = grp.ids

\* C10: group undo/redo moves the whole group.  Once k >= 1 entries
\* (k <= maxHistorySize) were recorded between startGroup and endGroup and
\* nothing was recorded since, one undo removes exactly those k entries from
\* the undo stack, returns them and puts all k on the redo stack, leaving
\* every other entry where it was; one redo then returns exactly those k
\* entries to the undo stack.
C10_GroupStep ==
  /\ (grp.phase = "closed" /\ grp'.phase = "undone") =>
       /\ Len(lastRet') = Cardinality(grp.ids)
       /\ SeqRange(lastRet') = grp.ids
       /\ undoStack' = outsideGroup(undoStack)
       /\ Len(undoStack') = Len(undoStack) - Cardinality(grp.ids)
       /\ groupOnTop(redoStack, redoStack')
  /\ (grp.phase = "undone" /\ grp'.phase = "redone") =>
       /\ Len(lastRet') = Cardinality(grp.ids)
       /\ SeqRange(lastRet') = grp.ids
       /\ redoStack' = outsideGroup(redoStack)
       /\ Len(redoStack') = Len(redoStack) - Cardinality(grp.ids)
       /\ groupOnTop(undoStack, undoStack')

C10_GroupMovesWhole == [][C10_GroupStep]_vars

\* a group of two entries was undone by one undo and redone by one redo
C10_Witness ==
  /\ grp.phase = "redone"
  /\ Cardinality(grp.ids) = 2
  /\ lastOp = "redo"
  /\ SeqRange(lastRet) = grp.ids
  /\ redoStack = << >>

\* a group of one entry recorded after an entry outside any group was undone
\* by one undo, which left the other entry on the undo stack
C10_WitnessOutside ==
  /\ grp.phase = "undone"
  /\ Cardinality(grp.ids) = 1
  /\ Len(undoStack) = 1
  /\ undoStack[1].id \notin grp.ids

\* applyUndo(entry, ...) called applyPatch and it returned success = false
undoFails(entry, fs) ==
  IF entry.type = "apply" /\ IsDef(entry.patch)
  THEN ~applyPatch(createReversePatch(entry.patch[1]), fs).success
  ELSE IF entry.type = "revert" /\ IsDef(entry.patch)
  THEN ~applyPatch(entry.patch[1], fs).success
  ELSE FALSE

\* some call of applyUndo in the loop of undo failed
RECURSIVE someUndoFails(_, _)
someUndoFails(entries, fs) ==
  IF Len(entries) = 0 THEN FALSE
  ELSE \/ undoFails(entries[1], fs)
       \/ someUndoFails(Tail(entries), applyUndo(entries[1], fs))

C11_UndoStep ==
  (lastOp' = "undo" /\ Len(undoStack) > 0) =>
    IF someUndoFails(poppedEntries(undoStack), hfiles)
    THEN /\ hfiles' = hfiles
         /\ undoStack' = undoStack
         /\ redoStack' = redoStack
    ELSE /\ hfiles' = applyUndoEach(poppedEntries(undoStack), hfiles)
         /\ Len(undoStack') < Len(undoStack)

\* C11: undo completes or fails atomically.  Every call of undo on a
\* non-empty undo stack either applies the inverse of every entry it pops, or,
\* when the applyPatch of some inverse returns success = false, changes no
\* file content and leaves the undo and redo stacks as they were.
C11_UndoAtomic == [][C11_UndoStep]_vars

\* `short` is what is left of `long` once entries were popped off its top
keptBelow(long, short) ==
  Len(short) <= Len(long) /\ SubSeq(long, 1, Len(short)) = short

C12_RedoStackStep ==
  /\ lastOp' = "record" => redoStack' = << >>
  /\ (lastOp' = "undo" /\ Len(undoStack) > 0) => keptBelow(redoStack', redoStack)
  /\ (lastOp' = "redo" /\ Len(redoStack) > 0) =>
       /\ keptBelow(redoStack, redoStack')
       /\ Len(redoStack) - Len(redoStack') = Len(lastRet')
       /\ SeqRange(entryIds(lastEntries(redoStack, Len(lastRet'))))
            = SeqRange(lastRet')

\* C12: recording a new entry (recordEdit, recordPatchApply, recordPatchRevert,
\* inside or outside a group) empties the redo stack; undo removes nothing
\* from the redo stack and redo removes from it exactly the entries it replays.
C12_RecordClearsRedo == [][C12_RedoStackStep]_vars

\* an entry was recorded while the redo stack held an entry
C12_Witness ==
  /\ lastOp = "record"
  /\ hpre.redo >= 1
  /\ redoStack = << >>

\* a redo replayed one entry and left another on the redo stack
C12_WitnessRedo ==
  /\ lastOp = "redo"
  /\ Len(lastRet) = 1
  /\ Len(redoStack) = 1
  /\ hpre.redo = 2

\* the newest k entries of stack, k capped by its length
newest(stack, k) == lastEntries(stack, Min(k, Len(stack)))

\* a record pushes one entry and keeps the newest maxHistorySize entries
C13_RecordStep ==
  lastOp' = "record" =>
    /\ Len(undoStack') >= 1
    /\ undoStack'[Len(undoStack')].id = nextId
    /\ undoStack' = newest(Append(undoStack, undoStack'[Len(undoStack')]),
                           MaxHistorySize)

\* C13: history cap.  The undo stack never holds more than maxHistorySize
\* entries, whatever record / undo / redo / startGroup / endGroup / clear
\* calls were made, and a record that would exceed the cap discards exactly
\* the oldest entries, the others keeping their order.
C13_HistoryCap ==
  [](Len(undoStack) <= MaxHistorySize) /\ [][C13_RecordStep]_vars

\* an entry was recorded on a full undo stack, which is full again
C13_Witness ==
  /\ lastOp = "record"
  /\ hpre.undo = MaxHistorySize
  /\ Len(undoStack) = MaxHistorySize

\* a redo pushed entries back and filled the undo stack to the cap
C13_WitnessRedo ==
  /\ lastOp = "redo"
  /\ Len(lastRet) >= 1
  /\ Len(undoStack) = MaxHistorySize

(***************************************************************************)
(* Paths and file names.  A path is a sequence of tokens: the separators   *)
(* "/" and "\\", the dot ".", and names without separator or dot.          *)
(***************************************************************************)
\* String.prototype.lastIndexOf(ch): 0-based, -1 when absent
RECURSIVE lastIndexOf(_, _)
lastIndexOf(s, ch) ==
  IF Len(s) = 0 THEN -1
  ELSE IF s[Len(s)] = ch THEN Len(s) - 1
  ELSE lastIndexOf(SubSeq(s, 1, Len(s) - 1), ch)

\* path.replace(/\\/g, "/")
slashed(path) == [i \in 1..Len(path) |-> IF path[i] = "\\" THEN "/" ELSE path[i]]

\* normalizePath once the backslashes are replaced
rooted(p) == IF Len(p) = 0 \/ p[1] # "/" THEN <<"/">> \o p ELSE p

untrailed(p) ==
  IF Len(p) > 1 /\ p[Len(p)] = "/" THEN Slice(p, 0, -1) ELSE p

normalizePath(path) == untrailed(rooted(slashed(path)))

\* getParentPath: null, or the path up to the last separator
getParentPath(path) ==
  IF lastIndexOf(path, "/") <= 0 THEN Undefined
  ELSE Some(Slice(path, 0, lastIndexOf(path, "/")))

\* normalizedPath.split("/").pop() ?? ""
baseName(path) == SubSeq(path, lastIndexOf(path, "/") + 2, Len(path))

\* getExtension; the names of the model are lower case already
getExtension(filename) ==
  IF lastIndexOf(filename, ".") = -1 \/ lastIndexOf(filename, ".") = 0
  THEN << >>
  ELSE SubSeq(filename, lastIndexOf(filename, ".") + 2, Len(filename))

\* EXTENSION_LANGUAGE_MAP[ext] ?? "plaintext", for the extensions of the model;
\* no name of the model is a key of FILENAME_LANGUAGE_MAP
getLanguage(filename) ==
  IF getExtension(filename) = <<"ts">> THEN "typescript"
  ELSE IF getExtension(filename) = <<"md">> THEN "markdown"
  ELSE "plaintext"

\* BINARY_EXTENSIONS.has(ext)
isBinaryFile(filename) == getExtension(filename) \in {<<"png">>}

\* JavaScript truthiness of an optional string held as a token sequence; a
\* language is a name that is never empty, so it is truthy when defined
Truthy(o) == IsDef(o) /\ o[1] # << >>

(***************************************************************************)
(* Maps                                                                    *)
(***************************************************************************)
EmptyMap == << >>
Put(map, k, v) == [x \in DOMAIN map \cup {k} |-> IF x = k THEN v ELSE map[x]]
Remove(map, k) == [x \in DOMAIN map \ {k} |-> map[x]]
Has(map, k) == k \in DOMAIN map

\* Array.prototype.indexOf / splice(idx, 1): drops the first occurrence
RECURSIVE dropFirst(_, _)
dropFirst(arr, x) ==
  IF Len(arr) = 0 THEN arr
  ELSE IF arr[1] = x THEN Tail(arr)
  ELSE <<arr[1]>> \o dropFirst(Tail(arr), x)

(***************************************************************************)
(* File index (file-index.ts).  The entities live in a heap of objects:    *)
(* the store's files map and the index's byPath map hold references to     *)
(* them, so a change of an entity shows through both.                      *)
(***************************************************************************)
\* a VirtualFile; language, extension, content, imports, exports, parentPath
\* and children are optional
VirtualFile(path, name, type, language, extension, content, isBinary, parentPath, children) ==
  [path |-> path, name |-> name, type |-> type, language |-> language,
   extension |-> extension, content |-> content, isBinary |-> isBinary,
   imports |-> Undefined, exports |-> Undefined,
   parentPath |-> parentPath, children |-> children]

createFileIndex ==
  [byPath |-> EmptyMap, byLanguage |-> EmptyMap, byExtension |-> EmptyMap,
   folders |-> EmptyMap, symbols |-> EmptyMap,
   importGraph |-> EmptyMap, exportGraph |-> EmptyMap]

\* if (!map.has(k)) map.set(k, new Set()); map.get(k).add(v)
addToBucket(map, k, v) ==
  Put(map, k, (IF Has(map, k) THEN map[k] ELSE {}) \cup {v})

\* map.get(k)?.delete(v)
deleteFromBucket(map, k, v) ==
  IF Has(map, k) THEN Put(map, k, map[k] \ {v}) ELSE map

\* the loop "for (const symbol of file.exports)" of indexFile
RECURSIVE pushSymbols(_, _, _)
pushSymbols(symbols, exports, path) ==
  IF Len(exports) = 0 THEN symbols
  ELSE pushSymbols(Put(symbols, exports[1],
                       Append(IF Has(symbols, exports[1])
                              THEN symbols[exports[1]] ELSE << >>, path)),
                   Tail(exports), path)

\* the loop "for (const imp of file.imports)" of indexFile
RECURSIVE addImporters(_, _, _)
addImporters(exportGraph, imports, path) ==
  IF Len(imports) = 0 THEN exportGraph
  ELSE addImporters(addToBucket(exportGraph, imports[1], path),
                    Tail(imports), path)

\* indexFile(index, file); ref is the reference to the object file
indexFile(idx, ref, file) ==
  [byPath      |-> Put(idx.byPath, file.path, ref),
   byLanguage  |-> IF IsDef(file.language)
                   THEN addToBucket(idx.byLanguage, file.language[1], file.path)
                   ELSE idx.byLanguage,
   byExtension |-> IF Truthy(file.extension)
                   THEN addToBucket(idx.byExtension, file.extension[1], file.path)
                   ELSE idx.byExtension,
   folders     |-> IF Truthy(file.parentPath)
                   THEN addToBucket(idx.folders, file.parentPath[1], file.path)
                   ELSE idx.folders,
   symbols     |-> IF IsDef(file.exports)
                   THEN pushSymbols(idx.symbols, file.exports[1], file.path)
                   ELSE idx.symbols,
   importGraph |-> IF IsDef(file.imports)
                   THEN Put(idx.importGraph, file.path, SeqRange(file.imports[1]))
                   ELSE idx.importGraph,
   exportGraph |-> IF IsDef(file.imports)
                   THEN addImporters(idx.exportGraph, file.imports[1], file.path)
                   ELSE idx.exportGraph]

\* the loop "for (const symbol of file.exports)" of unindexFile
RECURSIVE spliceSymbols(_, _, _)
spliceSymbols(symbols, exports, path) ==
  IF Len(exports) = 0 THEN symbols
  ELSE spliceSymbols(IF Has(symbols, exports[1])
                     THEN Put(symbols, exports[1],
                              dropFirst(symbols[exports[1]], path))
                     ELSE symbols,
                     Tail(exports), path)

\* unindexFile once byPath.get(path) has returned the object file
unindexFound(idx, file, path) ==
  [byPath      |-> Remove(idx.byPath, path),
   byLanguage  |-> IF IsDef(file.language)
                   THEN deleteFromBucket(idx.byLanguage, file.language[1], path)
                   ELSE idx.byLanguage,
   byExtension |-> IF Truthy(file.extension)
                   THEN deleteFromBucket(idx.byExtension, file.extension[1], path)
                   ELSE idx.byExtension,
   folders     |-> IF Truthy(file.parentPath)
                   THEN deleteFromBucket(idx.folders, file.parentPath[1], path)
                   ELSE idx.folders,
   symbols     |-> IF IsDef(file.exports)
                   THEN spliceSymbols(idx.symbols, file.exports[1], path)
                   ELSE idx.symbols,
   importGraph |-> Remove(idx.importGraph, path),
   exportGraph |-> [k \in DOMAIN idx.exportGraph |-> idx.exportGraph[k] \ {path}]]

\* unindexFile(index, path); objects is the heap
unindexFile(idx, objects, path) ==
  IF ~Has(idx.byPath, path) THEN idx
  ELSE unindexFound(idx, objects[idx.byPath[path]], path)

\* findBySymbol(index, symbol)
findBySymbol(idx, symbol) ==
  IF Has(idx.symbols, symbol) THEN idx.symbols[symbol] ELSE << >>

(***************************************************************************)
(* Virtual file store (virtual-fs.ts).  A store value S has the fields     *)
(* heap (the objects), files (path -> reference) and index.  The content   *)
(* of a file is a sequence of statements <<kind, name>>: <<"export", "x">> *)
(* stands for  export const x ...  and <<"import", "m">> for               *)
(* import ... from "m".  The store's metadata is null: nothing is loaded.  *)
(***************************************************************************)
namesOf(content, kind) ==
  [i \in 1..Len(SelectSeq(content, LAMBDA st : st[1] = kind)) |->
     SelectSeq(content, LAMBDA st : st[1] = kind)[i][2]]

\* the end of analyzeFileImports: empty lists are stored as undefined
analysed(file, imports, exports) ==
  [file EXCEPT !.imports = IF Len(imports) > 0 THEN Some(imports) ELSE Undefined,
               !.exports = IF Len(exports) > 0 THEN Some(exports) ELSE Undefined]

\* analyzeFileImports(file), for the languages of the model
analyzeFileImports(file) ==
  IF ~Truthy(file.content) \/ file.isBinary THEN file
  ELSE IF file.language \in {Some("typescript"), Some("javascript")}
  THEN analysed(file, namesOf(file.content[1], "import"),
                namesOf(file.content[1], "export"))
  ELSE analysed(file, << >>, << >>)

\* the value an operation returns together with the store it leaves;
\* overflow: the recursion of delete did not end (RangeError)
Result(S, ret) ==
  [heap |-> S.heap, files |-> S.files, index |-> S.index,
   ret |-> ret, overflow |-> FALSE]

exists(S, path) == Has(S.files, normalizePath(path))

\* generateId(): a reference no object has
freshRef(objects) ==
  CHOOSE n \in 1..(Cardinality(DOMAIN objects) + 1) : n \notin DOMAIN objects

\* "Update parent folder" of createFile / createFolder
linkChild(objects, fileMap, parentPath, childPath) ==
  IF ~Truthy(parentPath) THEN objects
  ELSE IF ~Has(fileMap, normalizePath(parentPath[1])) THEN objects
  ELSE IF objects[fileMap[normalizePath(parentPath[1])]].type # "folder" THEN objects
  ELSE [objects EXCEPT ![fileMap[normalizePath(parentPath[1])]].children =
          IF childPath \in SeqRange(OrElse(@, << >>))
          THEN Some(OrElse(@, << >>))
          ELSE Some(Append(OrElse(@, << >>), childPath))]

\* createFile / createFolder once the entity is built
created(S, ref, file) ==
  [heap  |-> linkChild(Put(S.heap, ref, file), Put(S.files, file.path, ref),
                       file.parentPath, file.path),
   files |-> Put(S.files, file.path, ref),
   index |-> indexFile(S.index, ref, file),
   ret |-> Some(ref), overflow |-> FALSE]

newFile(normalizedPath, content) ==
  VirtualFile(normalizedPath, baseName(normalizedPath), "file",
              Some(getLanguage(baseName(normalizedPath))),
              Some(getExtension(baseName(normalizedPath))),
              Some(content), isBinaryFile(baseName(normalizedPath)),
              getParentPath(normalizedPath), Undefined)

newFolder(normalizedPath) ==
  VirtualFile(normalizedPath, baseName(normalizedPath), "folder",
              Undefined, Undefined, Undefined, FALSE,
              getParentPath(normalizedPath), Some(<< >>))

\* a createFile that does not look whether the path is occupied
createFileOver(S, path, content) ==
  created(S, freshRef(S.heap),
          analyzeFileImports(newFile(normalizePath(path), content)))

\* createFile(path, content): the new entity's reference, or null
createFile(S, path, content) ==
  IF exists(S, normalizePath(path)) THEN Result(S, Undefined)
  ELSE created(S, freshRef(S.heap),
               analyzeFileImports(newFile(normalizePath(path), content)))

\* createFolder(path)
createFolder(S, path) ==
  IF exists(S, normalizePath(path)) THEN Result(S, Undefined)
  ELSE created(S, freshRef(S.heap), newFolder(normalizePath(path)))

\* updateContent once the file object is changed and analysed again
updated(S, ref, file) ==
  [heap  |-> Put(S.heap, ref, file),
   files |-> S.files,
   index |-> indexFile(S.index, ref, file),
   ret |-> TRUE, overflow |-> FALSE]

\* an updateContent that accepts a folder
updateContentAny(S, path, content) ==
  IF ~exists(S, path) THEN Result(S, FALSE)
  ELSE updated(S, S.files[normalizePath(path)],
               analyzeFileImports([S.heap[S.files[normalizePath(path)]]
                                     EXCEPT !.content = Some(content)]))

\* updateContent(path, content)
updateContent(S, path, content) ==
  IF ~exists(S, path) THEN Result(S, FALSE)
  ELSE IF S.heap[S.files[normalizePath(path)]].type = "folder" THEN Result(S, FALSE)
  ELSE updated(S, S.files[normalizePath(path)],
               analyzeFileImports([S.heap[S.files[normalizePath(path)]]
                                     EXCEPT !.content = Some(content)]))

\* "Remove from parent" of delete
unlinkChild(objects, fileMap, parentPath, childPath) ==
  IF ~Truthy(parentPath) THEN objects
  ELSE IF ~Has(fileMap, normalizePath(parentPath[1])) THEN objects
  ELSE IF ~IsDef(objects[fileMap[normalizePath(parentPath[1])]].children) THEN objects
  ELSE [objects EXCEPT ![fileMap[normalizePath(parentPath[1])]].children =
          Some(dropFirst(@[1], childPath))]

\* delete after the loop over the children: unindex, remove, unlink
removeNode(R, normalizedPath, ref) ==
  IF R.overflow THEN R
  ELSE [heap  |-> unlinkChild(R.heap, Remove(R.files, normalizedPath),
                              R.heap[ref].parentPath, normalizedPath),
        files |-> Remove(R.files, normalizedPath),
        index |-> unindexFile(R.index, R.heap, normalizedPath),
        ret |-> TRUE, overflow |-> FALSE]

\* [...file.children] of a folder, nothing for a file
childrenSnapshot(file) ==
  IF file.type = "folder" /\ IsDef(file.children) THEN file.children[1] ELSE << >>

\* delete(path); fuel bounds the depth of the recursion
RECURSIVE delete(_, _, _)
RECURSIVE deleteChildren(_, _, _)
delete(S, path, fuel) ==
  IF ~exists(S, normalizePath(path)) THEN Result(S, FALSE)
  ELSE IF fuel = 0 THEN [Result(S, FALSE) EXCEPT !.overflow = TRUE]
  ELSE removeNode(deleteChildren(Result(S, TRUE),
                    childrenSnapshot(S.heap[S.files[normalizePath(path)]]),
                    fuel - 1),
                  normalizePath(path), S.files[normalizePath(path)])

\* the loop "for (const childPath of [...file.children]) this.delete(childPath)"
deleteChildren(R, children, fuel) ==
  IF Len(children) = 0 \/ R.overflow THEN R
  ELSE deleteChildren(delete(R, children[1], fuel), Tail(children), fuel)

\* a recursion that ends visits every stored path at most once per chain
deleteFuel(S) == Cardinality(DOMAIN S.files) + 1

\* the fields rename changes on the object
renamedFile(file, normalizedNewPath) ==
  IF file.type = "file"
  THEN [file EXCEPT !.path = normalizedNewPath,
                    !.name = baseName(normalizedNewPath),
                    !.parentPath = getParentPath(normalizedNewPath),
                    !.language = Some(getLanguage(baseName(normalizedNewPath))),
                    !.extension = Some(getExtension(baseName(normalizedNewPath)))]
  ELSE [file EXCEPT !.path = normalizedNewPath,
                    !.name = baseName(normalizedNewPath),
                    !.parentPath = getParentPath(normalizedNewPath)]

\* "Re-add" of rename
readded(idx, fileMap, objects, ref, file) ==
  [heap  |-> Put(objects, ref, file),
   files |-> Put(fileMap, file.path, ref),
   index |-> indexFile(idx, ref, file),
   ret |-> TRUE, overflow |-> FALSE]

\* a rename that also rewrites the parentPath of the entities below the old path
renameCascades(S, oldPath, newPath) ==
  IF ~exists(S, oldPath) THEN Result(S, FALSE)
  ELSE IF exists(S, newPath) THEN Result(S, FALSE)
  ELSE [readded(unindexFile(S.index, S.heap, oldPath), Remove(S.files, oldPath),
                S.heap, S.files[normalizePath(oldPath)],
                renamedFile(S.heap[S.files[normalizePath(oldPath)]],
                            normalizePath(newPath)))
          EXCEPT !.heap = [q \in DOMAIN @ |->
                             IF @[q].parentPath = Some(normalizePath(oldPath))
                             THEN [@[q] EXCEPT !.parentPath = Some(normalizePath(newPath))]
                             ELSE @[q]]]

\* rename(oldPath, newPath): the old path is unindexed and removed as given
rename(S, oldPath, newPath) ==
  IF ~exists(S, oldPath) THEN Result(S, FALSE)
  ELSE IF exists(S, newPath) THEN Result(S, FALSE)
  ELSE readded(unindexFile(S.index, S.heap, oldPath), Remove(S.files, oldPath),
               S.heap, S.files[normalizePath(oldPath)],
               renamedFile(S.heap[S.files[normalizePath(oldPath)]],
                           normalizePath(newPath)))

(***************************************************************************)
(* Store harness: a caller makes up to MaxCalls calls on one store.        *)
(***************************************************************************)
\* the spellings of paths the caller passes
PathArgs ==
  {<<"/", "d">>, <<"d", "/">>, <<"/", "d", "/", "a", ".", "ts">>,
   <<"/", "b", ".", "ts">>}

\* the contents the caller writes
Contents ==
  {<< >>, <<<<"export", "x">>>>, <<<<"export", "y">>, <<"import", "m">>>>}

Store == [heap |-> heap, files |-> files, index |-> index]

\* the objects still referenced by the store or by the index
live(R) ==
  [r \in {R.files[k] : k \in DOMAIN R.files}
         \cup {R.index.byPath[k] : k \in DOMAIN R.index.byPath} |-> R.heap[r]]

\* the proper ancestors named by a chain of parent paths
RECURSIVE ancestors(_)
ancestors(parentPath) ==
  IF ~IsDef(parentPath) THEN {}
  ELSE {parentPath[1]} \cup ancestors(getParentPath(parentPath[1]))

\* the stored paths whose entity's chain of parent paths leads to path
descendantsOf(S, path) ==
  {k \in DOMAIN S.files : path \in ancestors(S.heap[S.files[k]].parentPath)}

\* the record of the last call: its name, the path and content it was given,
\* whether it succeeded, for delete what it was asked to remove, and for
\* rename the new path
LastCall(op, path, content, ret, overflow, folder, removed) ==
  [op |-> op, path |-> path, content |-> content, ret |-> ret,
   overflow |-> overflow, folder |-> folder, removed |-> removed,
   newPath |-> << >>]

StoreInit ==
  /\ heap = EmptyMap
  /\ files = EmptyMap
  /\ index = createFileIndex
  /\ metadata = Undefined
  /\ vlast = LastCall("none", << >>, << >>, FALSE, FALSE, FALSE, {})
  /\ vcalls = 0
  /\ sorder = << >> /\ squery = << >> /\ sres = << >>
  /\ loads = << >>
  /\ pfiles = << >> /\ ppatch = << >> /\ pstage = "idle" /\ porig = << >>
  /\ pres = << >> /\ pmodified = << >> /\ pval = << >>
  /\ pop = << >>
  /\ HistIdle

\* the store and the index after a call
Commit(R, last) ==
  /\ heap' = live(R)
  /\ files' = R.files
  /\ index' = R.index
  /\ vlast' = last
  /\ vcalls' = vcalls + 1
  /\ UNCHANGED <<metadata, patchVars, histVars, searchVars, loadVars>>

VCreateFile ==
  /\ vcalls < MaxCalls
  /\ \E path \in PathArgs, content \in Contents :
       \E R \in {createFile(Store, path, content)} :
         Commit(R, LastCall("createFile", normalizePath(path), content,
                            IsDef(R.ret), FALSE, FALSE, {}))

VCreateFolder ==
  /\ vcalls < MaxCalls
  /\ \E path \in PathArgs :
       \E R \in {createFolder(Store, path)} :
         Commit(R, LastCall("createFolder", normalizePath(path), << >>,
                            IsDef(R.ret), FALSE, TRUE, {}))

VUpdateContent ==
  /\ vcalls < MaxCalls
  /\ \E path \in PathArgs, content \in Contents :
       \E R \in {updateContent(Store, path, content)} :
         Commit(R, LastCall("updateContent", normalizePath(path), content,
                            R.ret, FALSE, FALSE, {}))

VDelete ==
  /\ vcalls < MaxCalls
  /\ \E path \in PathArgs :
       \E R \in {delete(Store, path, deleteFuel(Store))} :
         Commit(R, LastCall("delete", normalizePath(path), << >>,
                            R.ret, R.overflow,
                            /\ exists(Store, path)
                            /\ heap[files[normalizePath(path)]].type = "folder",
                            {normalizePath(path)}
                              \cup descendantsOf(Store, normalizePath(path))))

VRename ==
  /\ vcalls < MaxCalls
  /\ \E oldPath \in PathArgs, newPath \in PathArgs :
       \E R \in {rename(Store, oldPath, newPath)} :
         Commit(R, [LastCall("rename", normalizePath(oldPath), << >>,
                             R.ret, FALSE, FALSE, {})
                      EXCEPT !.newPath = normalizePath(newPath)])

StoreNext ==
  \/ VCreateFile \/ VCreateFolder \/ VUpdateContent \/ VDelete \/ VRename

StoreSpec == StoreInit /\ [][StoreNext]_vars

(***************************************************************************)
(* Claims about the file index and the store (StoreSpec)                   *)
(***************************************************************************)
\* the keys of a bucket map whose bucket holds path
bucketsWith(map, path) == {k \in DOMAIN map : path \in map[k]}

\* the one key implied by an optional field, none when the field is falsy
impliedBy(field) == IF Truthy(field) THEN {field[1]} ELSE {}

\* path is a member of some structure of the index
listed(idx, path) ==
  \/ Has(idx.byPath, path)
  \/ bucketsWith(idx.byLanguage, path) # {}
  \/ bucketsWith(idx.byExtension, path) # {}
  \/ bucketsWith(idx.folders, path) # {}
  \/ \E sym \in DOMAIN idx.symbols : path \in SeqRange(idx.symbols[sym])
  \/ Has(idx.importGraph, path)
  \/ bucketsWith(idx.exportGraph, path) # {}

\* every path some structure of the index mentions as a member
indexedPaths(idx) ==
  DOMAIN idx.byPath \cup DOMAIN idx.importGraph
  \cup UNION {idx.byLanguage[k] : k \in DOMAIN idx.byLanguage}
  \cup UNION {idx.byExtension[k] : k \in DOMAIN idx.byExtension}
  \cup UNION {idx.folders[k] : k \in DOMAIN idx.folders}
  \cup UNION {SeqRange(idx.symbols[k]) : k \in DOMAIN idx.symbols}
  \cup UNION {idx.exportGraph[k] : k \in DOMAIN idx.exportGraph}

\* every path of byPath is in exactly the language, extension and folder
\* buckets its entity's fields imply
C5_BucketsMatchFields ==
  \A path \in DOMAIN index.byPath :
    /\ bucketsWith(index.byLanguage, path)
         = (IF IsDef(heap[index.byPath[path]].language)
            THEN {heap[index.byPath[path]].language[1]} ELSE {})
    /\ bucketsWith(index.byExtension, path)
         = impliedBy(heap[index.byPath[path]].extension)
    /\ bucketsWith(index.folders, path)
         = impliedBy(heap[index.byPath[path]].parentPath)

\* a path that is not in byPath is a member of no structure of the index
C5_NoStalePath == \A path \in indexedPaths(index) : Has(index.byPath, path)

\* C5: index consistency.  After the indexFile / unindexFile calls of any
\* sequence of store operations, every path in byPath is in exactly the
\* language, extension and parent-folder buckets implied by the current fields
\* of its entity, and a removed path is a member of no index structure.
C5_IndexConsistency == C5_BucketsMatchFields /\ C5_NoStalePath

\* how often x occurs in arr
occurrences(arr, x) == Cardinality({i \in 1..Len(arr) : arr[i] = x})

\* the symbols the analysis finds exported by content in a file of that language
exportedBy(language, content) ==
  IF language \in {Some("typescript"), Some("javascript")}
  THEN SeqRange(namesOf(content, "export")) ELSE {}

\* C6: update re-indexes with retract-then-insert semantics.  After
\* updateContent(path, c) returned true, findBySymbol(s) holds path exactly
\* once when the analysis of c exports s and not at all otherwise.
C6_UpdateRetractsThenInserts ==
  (vlast.op = "updateContent" /\ vlast.ret) =>
    \A sym \in DOMAIN index.symbols
               \cup exportedBy(heap[files[vlast.path]].language, vlast.content) :
      occurrences(findBySymbol(index, sym), vlast.path)
        = IF sym \in exportedBy(heap[files[vlast.path]].language, vlast.content)
          THEN 1 ELSE 0

\* C7: parent/child invariant.  Every stored entity with a non-null
\* parentPath has, at that path, a stored folder whose children list holds
\* the entity's path.
C7_ParentChild ==
  \A k \in DOMAIN files :
    IsDef(heap[files[k]].parentPath) =>
      /\ Has(files, heap[files[k]].parentPath[1])
      /\ heap[files[heap[files[k]].parentPath[1]]].type = "folder"
      /\ heap[files[k]].path
           \in SeqRange(OrElse(heap[files[heap[files[k]].parentPath[1]]].children,
                               << >>))

\* C8: cascading delete.  After delete(p) returned true for a folder p,
\* neither p nor any entity whose chain of parent paths led to p is in the
\* store, and no index structure lists any of those paths.
C8_CascadingDelete ==
  (vlast.op = "delete" /\ vlast.ret /\ vlast.folder) =>
    \A path \in vlast.removed :
      /\ ~Has(files, path)
      /\ ~listed(index, path)

\* the last call ended with indexFile(index, e) for the entity at its path
indexedLast ==
  /\ vlast.op \in {"createFile", "createFolder", "updateContent"}
  /\ vlast.ret
  /\ Has(files, vlast.path)

\* C16: index idempotence.  Calling indexFile(e) again right after
\* indexFile(e) leaves every structure of the index as it is; calling
\* unindexFile(p) again right after unindexFile(p) changes nothing; and
\* unindexFile of a path that is not indexed changes nothing.
C16_IndexIdempotent ==
  /\ indexedLast =>
       indexFile(index, files[vlast.path], heap[files[vlast.path]]) = index
  /\ (vlast.op = "delete" /\ vlast.ret) =>
       unindexFile(index, heap, vlast.path) = index
  /\ \A path \in {normalizePath(a) : a \in PathArgs} \cup PathArgs :
       ~Has(index.byPath, path) => unindexFile(index, heap, path) = index

\* the keys of a map of references that refer to the object ref
keysOf(map, ref) == {k \in DOMAIN map : map[k] = ref}

\* C17: rename under every accepted spelling of the old path.  After
\* rename(oldPath, newPath) returned true, the store and the index resolve the
\* normalized old path to nothing, both resolve the normalized new path to
\* the one renamed entity, and exactly one store key and one byPath key refer
\* to that entity.
C17_RenameMovesKey ==
  (vlast.op = "rename" /\ vlast.ret) =>
    /\ ~Has(files, vlast.path)
    /\ ~Has(index.byPath, vlast.path)
    /\ Has(files, vlast.newPath)
    /\ Has(index.byPath, vlast.newPath)
    /\ index.byPath[vlast.newPath] = files[vlast.newPath]
    /\ heap[files[vlast.newPath]].path = vlast.newPath
    /\ keysOf(files, files[vlast.newPath]) = {vlast.newPath}
    /\ keysOf(index.byPath, files[vlast.newPath]) = {vlast.newPath}

\* the step left the store, the index, every entity (and so every children
\* list) and the metadata as they were
storeUntouched ==
  /\ files' = files
  /\ index' = index
  /\ heap' = heap
  /\ metadata' = metadata

C18_CreateStep ==
  (vlast'.op \in {"createFile", "createFolder"} /\ Has(files, vlast'.path)) =>
    /\ ~vlast'.ret
    /\ storeUntouched

\* C18: create on an occupied path.  createFile(p, c) and createFolder(p)
\* return null whenever an entity exists at the normalized form of p, and
\* then leave the store, the index, every children list and the metadata
\* unchanged.
C18_CreateConflict == [][C18_CreateStep]_vars

\* createFile was refused on a path that holds a folder with a child
C18_Witness ==
  /\ vlast.op = "createFile"
  /\ ~vlast.ret
  /\ Has(files, vlast.path)
  /\ heap[files[vlast.path]].type = "folder"
  /\ heap[files[vlast.path]].children # Some(<< >>)

\* createFolder was refused on a path that holds a file
C18_WitnessFolder ==
  /\ vlast.op = "createFolder"
  /\ ~vlast.ret
  /\ Has(files, vlast.path)
  /\ heap[files[vlast.path]].type = "file"

\* the call about to be recorded is one the store refuses: its path is absent,
\* or it updates a folder, or it renames onto an occupied path
refusedCall ==
  \/ /\ vlast'.op \in {"delete", "updateContent", "rename"}
     /\ ~Has(files, vlast'.path)
  \/ /\ vlast'.op = "updateContent"
     /\ Has(files, vlast'.path)
     /\ heap[files[vlast'.path]].type = "folder"
  \/ /\ vlast'.op = "rename"
     /\ Has(files, vlast'.newPath)

C19_RefusedStep ==
  refusedCall => (~vlast'.ret /\ ~vlast'.overflow /\ storeUntouched)

\* C19: not-found and refused operations.  delete, updateContent and rename
\* on an absent path, updateContent on a folder and rename onto an occupied
\* path return false, raise nothing and leave the store, the index and all
\* children lists unchanged.
C19_RefusedChangesNothing == [][C19_RefusedStep]_vars

\* updateContent was refused on a folder
C19_Witness ==
  /\ vlast.op = "updateContent"
  /\ ~vlast.ret
  /\ Has(files, vlast.path)
  /\ heap[files[vlast.path]].type = "folder"

\* rename was refused because the new path is occupied by another entity
C19_WitnessRename ==
  /\ vlast.op = "rename"
  /\ ~vlast.ret
  /\ Has(files, vlast.path)
  /\ Has(files, vlast.newPath)
  /\ vlast.newPath # vlast.path

\* delete was refused on an absent path of a store that is not empty
C19_WitnessDelete ==
  /\ vlast.op = "delete"
  /\ ~vlast.ret
  /\ ~Has(files, vlast.path)
  /\ DOMAIN files # {}

\* the children list of a folder, empty for a folder without one
childrenOf(file) == OrElse(file.children, << >>)

\* C21: a folder's children list is never stale and never holds a path twice.
\* After any sequence of createFile, createFolder, delete and rename calls,
\* every path a stored folder lists as a child names a stored entity whose
\* parentPath is that folder, and no path is listed twice.
C21_ChildrenFresh ==
  \A k \in DOMAIN files :
    heap[files[k]].type = "folder" =>
      \A i \in 1..Len(childrenOf(heap[files[k]])) :
        /\ Has(files, childrenOf(heap[files[k]])[i])
        /\ heap[files[childrenOf(heap[files[k]])[i]]].parentPath
             = Some(heap[files[k]].path)
        /\ occurrences(childrenOf(heap[files[k]]), childrenOf(heap[files[k]])[i]) = 1

\* findImporters(index, filePath) and findImports(index, filePath), as sets
findImporters(idx, filePath) ==
  IF Has(idx.exportGraph, filePath) THEN idx.exportGraph[filePath] ELSE {}

findImports(idx, filePath) ==
  IF Has(idx.importGraph, filePath) THEN idx.importGraph[filePath] ELSE {}

\* the specifiers an entity imports now
importsOf(file) == IF IsDef(file.imports) THEN SeqRange(file.imports[1]) ELSE {}

\* every specifier the index or a stored entity mentions
specifiers ==
  DOMAIN index.exportGraph
  \cup UNION {index.importGraph[p] : p \in DOMAIN index.importGraph}
  \cup UNION {importsOf(heap[files[p]]) : p \in DOMAIN files}

\* p is in exportGraph[s] exactly when s is in importGraph[p]
C22_Transpose ==
  \A s \in specifiers :
    \A p \in DOMAIN files \cup DOMAIN index.importGraph \cup findImporters(index, s) :
      p \in findImporters(index, s) <=> s \in findImports(index, p)

\* importGraph[p] is the set of the current imports of the entity at p, with
\* no entry when it has none
C22_ImportsCurrent ==
  /\ \A p \in DOMAIN index.importGraph : Has(files, p)
  /\ \A p \in DOMAIN files :
       IF importsOf(heap[files[p]]) = {}
       THEN ~Has(index.importGraph, p)
       ELSE /\ Has(index.importGraph, p)
            /\ index.importGraph[p] = importsOf(heap[files[p]])

\* findImporters(s) is exactly the set of files whose content imports s now
C22_ImportersExact ==
  \A s \in specifiers :
    findImporters(index, s)
      = {p \in DOMAIN files : s \in importsOf(heap[files[p]])}

\* C22: the export graph is the exact transpose of the import graph.  After
\* any sequence of createFile, updateContent, delete and rename calls, p is
\* in exportGraph[s] exactly when s is in importGraph[p], importGraph[p] is
\* the set of the entity's current imports (no entry when it has none), and
\* findImporters(s) returns exactly the files whose current content imports s.
C22_ExportGraphTranspose ==
  C22_Transpose /\ C22_ImportsCurrent /\ C22_ImportersExact

(***************************************************************************)
(* File search (file-index.ts, searchFiles).  The Sets and Maps of the     *)
(* index iterate in insertion order; order lists the indexed paths in the  *)
(* order they were inserted.  A content query is a word: a statement       *)
(* <<kind, name>> is one line that holds the word kind once.  The files    *)
(* of the store have contentLoaded = true.                                 *)
(***************************************************************************)
FileSearchQuery(pattern, content, languages, extensions, paths, excludePaths, maxResults) ==
  [pattern |-> pattern, content |-> content, languages |-> languages,
   extensions |-> extensions, paths |-> paths, excludePaths |-> excludePaths,
   maxResults |-> maxResults]

FileSearchResult(file, matches, score) ==
  [file |-> file, matches |-> matches, score |-> score]

\* query.maxResults ?? 100
DefaultMaxResults == 100

\* the members of a Set (the keys of a Map) in iteration order
inOrder(members, order) == SelectSeq(order, LAMBDA p : p \in members)

\* for (const path of files) candidates.add(path)
RECURSIVE addEach(_, _)
addEach(candidates, paths) ==
  IF Len(paths) = 0 THEN candidates
  ELSE addEach(IF paths[1] \in SeqRange(candidates) THEN candidates
               ELSE Append(candidates, paths[1]),
               Tail(paths))

\* the loop over query.languages / query.extensions
RECURSIVE fromBuckets(_, _, _, _)
fromBuckets(map, keys, order, candidates) ==
  IF Len(keys) = 0 THEN candidates
  ELSE fromBuckets(map, Tail(keys), order,
                   IF Has(map, keys[1])
                   THEN addEach(candidates, inOrder(map[keys[1]], order))
                   ELSE candidates)

\* query.xs && query.xs.length > 0
given(list) == IsDef(list) /\ Len(list[1]) > 0

\* "Get candidate files"
startCandidates(idx, order, query) ==
  IF given(query.languages)
  THEN fromBuckets(idx.byLanguage, query.languages[1], order, << >>)
  ELSE IF given(query.extensions)
  THEN fromBuckets(idx.byExtension, query.extensions[1], order, << >>)
  ELSE inOrder(DOMAIN idx.byPath, order)

\* String.prototype.startsWith, for prefixes that end where a token ends
startsWith(path, prefix) ==
  Len(prefix) <= Len(path) /\ SubSeq(path, 1, Len(prefix)) = prefix

someStartsWith(path, prefixes) ==
  \E i \in 1..Len(prefixes) : startsWith(path, prefixes[i])

\* "Filter by path prefixes"
byPrefixes(candidates, query) ==
  IF given(query.paths)
  THEN SelectSeq(candidates, LAMBDA p : someStartsWith(p, query.paths[1]))
  ELSE candidates

\* "Exclude paths"
byExcludes(candidates, query) ==
  IF given(query.excludePaths)
  THEN SelectSeq(candidates, LAMBDA p : ~someStartsWith(p, query.excludePaths[1]))
  ELSE candidates

\* the tokens of the model that are one character long
OneChar == {"/", ".", "a", "b", "d"}

\* matchGlob(pattern, str): "**" any run, "*" any run without separator, the
\* dot is not escaped and stands for any one character; a run ends where a
\* token ends
RECURSIVE matchGlob(_, _)
matchGlob(pattern, str) ==
  IF Len(pattern) = 0 THEN Len(str) = 0
  ELSE IF pattern[1] = "**"
  THEN \/ matchGlob(Tail(pattern), str)
       \/ Len(str) > 0 /\ matchGlob(pattern, Tail(str))
  ELSE IF pattern[1] = "*"
  THEN \/ matchGlob(Tail(pattern), str)
       \/ Len(str) > 0 /\ str[1] # "/" /\ matchGlob(pattern, Tail(str))
  ELSE IF pattern[1] = "."
  THEN Len(str) > 0 /\ str[1] \in OneChar /\ matchGlob(Tail(pattern), Tail(str))
  ELSE Len(str) > 0 /\ str[1] = pattern[1] /\ matchGlob(Tail(pattern), Tail(str))

\* "Filter by pattern"
byPattern(candidates, query) ==
  IF Truthy(query.pattern)
  THEN SelectSeq(candidates,
                 LAMBDA p : \/ matchGlob(query.pattern[1], baseName(p))
                            \/ matchGlob(query.pattern[1], p))
  ELSE candidates

\* the candidates the result loop iterates over
candidatesOf(idx, order, query) ==
  byPattern(byExcludes(byPrefixes(startCandidates(idx, order, query), query),
                       query),
            query)

\* searchInContent(content, search, false, false).length
searchInContent(content, search) ==
  Len(SelectSeq(content, LAMBDA st : st[1] = search))

\* the content search applies to the file
contentSearched(query, file) == IsDef(query.content) /\ Truthy(file.content)

\* the result pushed for a file, none when the content search finds nothing
resultFor(query, ref, file) ==
  IF contentSearched(query, file)
  THEN IF searchInContent(file.content[1], query.content[1]) = 0 THEN << >>
       ELSE <<FileSearchResult(ref,
                Some(searchInContent(file.content[1], query.content[1])),
                searchInContent(file.content[1], query.content[1]))>>
  ELSE <<FileSearchResult(ref, Undefined, 1)>>

\* a result loop that never breaks
RECURSIVE collectAll(_, _, _, _, _)
collectAll(idx, objects, candidates, query, results) ==
  IF Len(candidates) = 0 THEN results
  ELSE IF ~Has(idx.byPath, candidates[1])
  THEN collectAll(idx, objects, Tail(candidates), query, results)
  ELSE collectAll(idx, objects, Tail(candidates), query,
                  results \o resultFor(query, idx.byPath[candidates[1]],
                                       objects[idx.byPath[candidates[1]]]))

\* "Search content": the loop over the candidates
RECURSIVE collect(_, _, _, _, _)
collect(idx, objects, candidates, query, results) ==
  IF Len(candidates) = 0 THEN results
  ELSE IF Len(results) >= OrElse(query.maxResults, DefaultMaxResults) THEN results
  ELSE IF ~Has(idx.byPath, candidates[1])
  THEN collect(idx, objects, Tail(candidates), query, results)
  ELSE collect(idx, objects, Tail(candidates), query,
               results \o resultFor(query, idx.byPath[candidates[1]],
                                    objects[idx.byPath[candidates[1]]]))

\* results.sort((a, b) => b.score - a.score): stable
RECURSIVE insertByScore(_, _)
insertByScore(sorted, r) ==
  IF Len(sorted) = 0 THEN <<r>>
  ELSE IF sorted[1].score >= r.score
  THEN <<sorted[1]>> \o insertByScore(Tail(sorted), r)
  ELSE <<r>> \o sorted

RECURSIVE sortByScore(_)
sortByScore(results) ==
  IF Len(results) = 0 THEN << >>
  ELSE insertByScore(sortByScore(Slice(results, 0, -1)), results[Len(results)])

\* searchFiles(index, query)
searchFiles(idx, objects, order, query) ==
  sortByScore(collect(idx, objects, candidatesOf(idx, order, query), query, << >>))

(***************************************************************************)
(* Search harness: a caller creates up to MaxSearchFiles files in a store  *)
(* and searches the index once it is built.                                *)
(***************************************************************************)
SearchPaths ==
  {<<"/", "d">>, <<"/", "d", "/", "a", ".", "ts">>, <<"/", "b", ".", "ts">>}

\* no line, one line with the word export, two such lines
SearchContents ==
  {<< >>, <<<<"export", "x">>>>, <<<<"export", "x">>, <<"export", "y">>>>}

Queries ==
  {FileSearchQuery(pattern, content, languages, extensions, paths, excludePaths, maxResults) :
     pattern \in {Undefined, Some(<<"*", ".", "ts">>)},
     content \in {Undefined, Some("export"), Some("import")},
     languages \in {Undefined, Some(<<"typescript">>),
                    Some(<<"plaintext", "typescript">>)},
     extensions \in {Undefined, Some(<<<<"ts">>>>), Some(<<<<"md">>, <<"ts">>>>)},
     paths \in {Undefined, Some(<<<<"/", "d">>>>)},
     excludePaths \in {Undefined, Some(<<<<"/", "d", "/">>>>)},
     maxResults \in {Undefined, Some(1), Some(2)}}

SearchInit ==
  /\ heap = EmptyMap
  /\ files = EmptyMap
  /\ index = createFileIndex
  /\ metadata = Undefined
  /\ vlast = LastCall("none", << >>, << >>, FALSE, FALSE, FALSE, {})
  /\ vcalls = 0
  /\ sorder = << >> /\ squery = Undefined /\ sres = << >>
  /\ loads = << >>
  /\ pfiles = << >> /\ ppatch = << >> /\ pstage = "idle" /\ porig = << >>
  /\ pres = << >> /\ pmodified = << >> /\ pval = << >>
  /\ pop = << >>
  /\ HistIdle

\* createFile(path, content) on a free path: the path is inserted last
SCreateFile ==
  /\ Cardinality(DOMAIN files) < MaxSearchFiles
  /\ \E path \in SearchPaths, content \in SearchContents :
       /\ ~exists(Store, path)
       /\ \E R \in {createFile(Store, path, content)} :
            /\ heap' = live(R)
            /\ files' = R.files
            /\ index' = R.index
            /\ sorder' = Append(sorder, normalizePath(path))
  /\ squery' = Undefined
  /\ sres' = << >>
  /\ UNCHANGED <<metadata, vlast, vcalls, patchVars, histVars, loadVars>>

\* search(query)
SSearch ==
  /\ ~IsDef(squery)
  /\ \E query \in Queries :
       /\ squery' = Some(query)
       /\ sres' = searchFiles(index, heap, sorder, query)
  /\ UNCHANGED <<sorder, storeVars, patchVars, histVars, loadVars>>

SearchNext == SCreateFile \/ SSearch

SearchSpec == SearchInit /\ [][SearchNext]_vars

(***************************************************************************)
(* Claims about the search (SearchSpec)                                    *)
(***************************************************************************)
\* the entities of the results of the last search, in result order
resultFiles == [i \in 1..Len(sres) |-> heap[sres[i].file]]

\* the optional field holds one of the listed values
oneOf(field, list) == IsDef(field) /\ field[1] \in SeqRange(list)

\* C23: search filter categories intersect.  When a query gives both a
\* non-empty languages list and a non-empty extensions list, searchFiles
\* returns only entities whose language is one of the listed languages and
\* whose extension is one of the listed extensions.
C23_FiltersIntersect ==
  (/\ IsDef(squery)
   /\ given(squery[1].languages)
   /\ given(squery[1].extensions)) =>
    \A i \in 1..Len(resultFiles) :
      /\ oneOf(resultFiles[i].language, squery[1].languages[1])
      /\ oneOf(resultFiles[i].extension, squery[1].extensions[1])

\* the place of a path in the candidate iteration order of the last search
placeOf(path) ==
  CHOOSE k \in 1..Len(candidatesOf(index, sorder, squery[1])) :
    candidatesOf(index, sorder, squery[1])[k] = path

\* the lines of a content that hold the word
matchCount(content, word) ==
  Cardinality({k \in 1..Len(content) : content[k][1] = word})

\* the score the ranking gives an entity: its number of content matches when
\* a content query applies to it, 1 otherwise
rankingScore(query, file) ==
  IF IsDef(query.content) /\ IsDef(file.content) /\ file.content[1] # << >>
  THEN matchCount(file.content[1], query.content[1])
  ELSE 1

\* C30: search cap and ranking.  searchFiles returns at most maxResults
\* results (100 when not given), ordered by non-increasing score, where a
\* result's score is its number of content matches when a content query
\* applies to it and 1 otherwise; results of equal score keep candidate
\* iteration order.
C30_CapAndRanking ==
  IsDef(squery) =>
    /\ Len(sres) <= OrElse(squery[1].maxResults, 100)
    /\ \A i \in 1..Len(sres) :
         /\ sres[i].score = rankingScore(squery[1], resultFiles[i])
         /\ sres[i].score >= 1
         /\ resultFiles[i].path \in SeqRange(candidatesOf(index, sorder, squery[1]))
    /\ \A i, j \in 1..Len(sres) :
         i < j =>
           /\ sres[i].score >= sres[j].score
           /\ sres[i].score = sres[j].score =>
                placeOf(resultFiles[i].path) < placeOf(resultFiles[j].path)

\* three candidates, a cap of two, and the sort moved a later candidate with
\* two matches in front of an earlier one with one match
C30_Witness ==
  /\ IsDef(squery)
  /\ squery[1].maxResults = Some(2)
  /\ Len(candidatesOf(index, sorder, squery[1])) = 3
  /\ Len(sres) = 2
  /\ sres[1].score = 2
  /\ sres[2].score = 1
  /\ placeOf(resultFiles[1].path) > placeOf(resultFiles[2].path)

\* a content search without cap returned three results, two of equal score
C30_WitnessTie ==
  /\ IsDef(squery)
  /\ IsDef(squery[1].content)
  /\ ~IsDef(squery[1].maxResults)
  /\ Len(sres) = 3
  /\ sres[1].score = 2
  /\ sres[2].score = 2
  /\ sres[3].score = 1
  /\ IsDef(sres[3].matches)

(***************************************************************************)
(* Further claims about the history manager (HistSpec)                     *)
(***************************************************************************)
\* the entries on the two stacks
stacked(us, rs) == us \o rs

\* prefix is what is left of stack once entries are popped from its top
isPrefix(prefix, stack) ==
  Len(prefix) <= Len(stack) /\ prefix = SubSeq(stack, 1, Len(prefix))

\* no entry is on both stacks or twice on one
C24_NoDuplicate ==
  \A i, j \in 1..Len(stacked(undoStack, redoStack)) :
    i # j => /\ stacked(undoStack, redoStack)[i] # stacked(undoStack, redoStack)[j]
             /\ stacked(undoStack, redoStack)[i].id
                  # stacked(undoStack, redoStack)[j].id

\* undo only moves entries from the undo stack to the redo stack, redo only
\* moves them back, and both keep the entries of the two stacks together
C24_MoveStep ==
  /\ lastOp' = "undo" =>
       /\ isPrefix(undoStack', undoStack)
       /\ isPrefix(redoStack, redoStack')
  /\ lastOp' = "redo" =>
       /\ isPrefix(redoStack', redoStack)
       /\ isPrefix(undoStack, undoStack')
  /\ lastOp' \in {"undo", "redo"} =>
       /\ Len(stacked(undoStack', redoStack')) = Len(stacked(undoStack, redoStack))
       /\ SeqRange(stacked(undoStack', redoStack'))
            = SeqRange(stacked(undoStack, redoStack))

\* C24: every history entry is at any time in exactly one place: on the undo
\* stack, on the redo stack, or discarded.  undo() only moves entries from the
\* undo stack to the redo stack and redo() only moves them back, so across any
\* undo / redo call the combined multiset of entries on the two stacks is
\* unchanged, and no entry is ever on both stacks or twice on one.
C24_OnePlace == [](C24_NoDuplicate) /\ [][C24_MoveStep]_vars

\* a redo moved one of two undone entries back: both stacks hold an entry
C24_Witness ==
  /\ lastOp = "redo"
  /\ hpre.redo = 2
  /\ Len(redoStack) = 1
  /\ Len(undoStack) = 1

\* an undo moved a group of two entries at once
C24_WitnessUndo ==
  /\ lastOp = "undo"
  /\ hpre.undo = 2
  /\ Len(undoStack) = 0
  /\ Len(redoStack) = 2

\* the entry a record* call has just pushed
newestEntry(stack) == stack[Len(stack)]

\* the group ids carried by the entries on the two stacks
groupIdsOn(us, rs) ==
  {stacked(us, rs)[i].groupId : i \in 1..Len(stacked(us, rs))} \ {Undefined}

\* what each call does to the open group and to the entry it records
C25_GroupStep ==
  /\ lastOp' = "startGroup" =>
       /\ IsDef(currentGroupId')
       /\ currentGroupId' # currentGroupId
       /\ currentGroupId' \notin groupIdsOn(undoStack, redoStack)
  /\ lastOp' \in {"endGroup", "clear"} => ~IsDef(currentGroupId')
  /\ lastOp' = "record" =>
       /\ Len(undoStack') > 0
       /\ newestEntry(undoStack').groupId = currentGroupId
       /\ currentGroupId' = currentGroupId
  /\ lastOp' \in {"undo", "redo"} => currentGroupId' = currentGroupId

\* C25: group membership.  Every entry recorded after a startGroup() and
\* before the next endGroup() or startGroup() carries the group id that
\* startGroup() returned; entries recorded while no group is open (at the
\* start, after endGroup, after clear) carry none; and the id of a startGroup()
\* is carried by no entry of an earlier group, so undo never merges two
\* adjacent groups.
C25_GroupMembership ==
  /\ HistInit => ~IsDef(currentGroupId)
  /\ [][C25_GroupStep]_vars

\* an entry recorded in an open group lies on top of one recorded before the
\* group was started
C25_Witness ==
  /\ lastOp = "record"
  /\ IsDef(currentGroupId)
  /\ Len(undoStack) = 2
  /\ undoStack[2].groupId = currentGroupId
  /\ ~IsDef(undoStack[1].groupId)

\* a second startGroup() while an entry of the first group is on the stack
C25_WitnessSecondGroup ==
  /\ lastOp = "startGroup"
  /\ Len(undoStack) = 1
  /\ IsDef(undoStack[1].groupId)

\* an entry recorded after endGroup() lies on top of an entry of the group
C25_WitnessAfterEnd ==
  /\ lastOp = "record"
  /\ ~IsDef(currentGroupId)
  /\ Len(undoStack) = 2
  /\ IsDef(undoStack[1].groupId)
  /\ ~IsDef(undoStack[2].groupId)

(***************************************************************************)
(* Further claims about the patch engine (PatchSpec)                       *)
(***************************************************************************)
\* the operations of the validated patch whose file readFile reports absent
missingFileOps ==
  {i \in 1..Len(ppatch.operations) :
     ppatch.operations[i].filePath \notin DOMAIN pfiles}

\* one conflict for an operation other than insert, none for an insert
C26_ConflictCount ==
  pstage = "validated" =>
    \A i \in missingFileOps :
      Len(conflictsFor(pval, ppatch.operations[i].id))
        = IF ppatch.operations[i].type # "insert" THEN 1 ELSE 0

\* C26: missing-file validation.  For an operation other than insert whose
\* target file is absent, validatePatch records exactly one conflict for that
\* operation, and its kind identifies "file not found" as a kind distinct from
\* "content changed"; for an insert on an absent file it records no conflict.
C26_MissingFile ==
  /\ C26_ConflictCount
  /\ pstage = "validated" =>
       \A i \in missingFileOps :
         \A c \in SeqRange(conflictsFor(pval, ppatch.operations[i].id)) :
           c.type # "content-changed"

(***************************************************************************)
(* Further claims about the store (StoreSpec)                              *)
(***************************************************************************)
\* the entries the index holds for a path
entriesOf(idx, objects, path) ==
  [byPath      |-> IF Has(idx.byPath, path) THEN <<idx.byPath[path]>> ELSE << >>,
   byLanguage  |-> bucketsWith(idx.byLanguage, path),
   byExtension |-> bucketsWith(idx.byExtension, path),
   folders     |-> bucketsWith(idx.folders, path),
   symbols     |-> [sym \in {k \in DOMAIN idx.symbols :
                               path \in SeqRange(idx.symbols[k])}
                      |-> occurrences(idx.symbols[sym], path)],
   importGraph |-> findImports(idx, path),
   exportGraph |-> bucketsWith(idx.exportGraph, path)]

\* the fields of an entity that a rename leaves alone
keptFields(file) ==
  [type |-> file.type, content |-> file.content, isBinary |-> file.isBinary,
   imports |-> file.imports, exports |-> file.exports,
   children |-> file.children]

\* every path the store or the index knows before or after the step
knownPaths(fileMap, idx) == DOMAIN fileMap \cup indexedPaths(idx)

\* a successful rename leaves every other entity, every other key of the
\* store and the index entries of every other path as they are
C27_RenameStep ==
  (vlast'.op = "rename" /\ vlast'.ret) =>
    /\ \A q \in DOMAIN heap \ {files[vlast'.path]} :
         q \in DOMAIN heap' /\ heap'[q] = heap[q]
    /\ keptFields(heap'[files[vlast'.path]]) = keptFields(heap[files[vlast'.path]])
    /\ \A k \in (DOMAIN files \cup DOMAIN files') \ {vlast'.path, vlast'.newPath} :
         k \in DOMAIN files /\ k \in DOMAIN files' /\ files'[k] = files[k]
    /\ \A path \in (knownPaths(files, index) \cup knownPaths(files', index'))
                     \ {vlast'.path, vlast'.newPath} :
         entriesOf(index', heap', path) = entriesOf(index, heap, path)

\* C27: rename of a folder is not cascaded.  A successful rename(old, new)
\* changes only the renamed entity's own path, name, parentPath (and, for a
\* file, its classification) and its index entries; the stored path,
\* parentPath, children list and content of every other entity, the
\* descendants of a renamed folder included, are unchanged.
C27_RenameNotCascaded == [][C27_RenameStep]_vars

\* a folder with a child was renamed: the child is stored under its old path
\* and names the folder's old path as its parent
C27_Witness ==
  /\ vlast.op = "rename"
  /\ vlast.ret
  /\ Has(files, vlast.newPath)
  /\ heap[files[vlast.newPath]].type = "folder"
  /\ Len(childrenOf(heap[files[vlast.newPath]])) > 0
  /\ \A i \in 1..Len(childrenOf(heap[files[vlast.newPath]])) :
       /\ Has(files, childrenOf(heap[files[vlast.newPath]])[i])
       /\ heap[files[childrenOf(heap[files[vlast.newPath]])[i]]].parentPath
            = Some(vlast.path)

\* C28: diff identity.  For every content string C,
\* generateLinePatches(path, C, C) returns no operations, and applying the
\* resulting empty patch succeeds and leaves the content equal to C.
C28_DiffIdentity ==
  /\ (pstage = "diffed" /\ pmodified = pfiles["/f"]) =>
       ppatch.operations = << >>
  /\ (pstage = "diffapplied" /\ pmodified = porig["/f"]) =>
       /\ ppatch.operations = << >>
       /\ pres.success
       /\ pres.errors = << >>
       /\ pfiles = porig

\* the diff of a content of MaxLines lines with itself was applied
C28_Witness ==
  /\ pstage = "diffapplied"
  /\ pmodified = porig["/f"]
  /\ Len(Split(pmodified)) = MaxLines
  /\ pfiles["/f"] = pmodified

\* applyOperation was called with an insert
insertCall == pstage = "operated" /\ pop.operation.type = "insert"

\* the line an insert goes in front of: its start line, or one past the end
insertionLine(content, op) == OrElse(op.startLine, Len(Split(content)) + 1)

\* the insertion line is one of 1 .. n + 1 for a content of n lines
validInsertion(content, op) ==
  insertionLine(content, op) \in 1..(Len(Split(content)) + 1)

\* the lines of content with the lines of text put in front of line s
insertedBefore(content, text, s) ==
  Join(SubSeq(Split(content), 1, s - 1) \o Split(text)
       \o SubSeq(Split(content), s, Len(Split(content))))

\* an insert at a valid line succeeds and puts the new lines in front of it
C29_ValidInsert ==
  (insertCall /\ validInsertion(pop.content, pop.operation)) =>
    /\ pop.result.success
    /\ ~IsDef(pop.result.error)
    /\ pop.result.content
         = insertedBefore(pop.content, pop.operation.newContent,
                          insertionLine(pop.content, pop.operation))

\* C29: insert precondition.  applyOperation applies an insert if and only if
\* its insertion line is valid: with n lines of content and a start line in
\* 1 .. n + 1 (or none) it succeeds without any content check and yields the
\* original lines with the new text's lines right before that line; an insert
\* whose start line lies outside 1 .. n + 1 is rejected and the content is
\* returned unchanged.
C29_InsertPrecondition ==
  /\ C29_ValidInsert
  /\ (insertCall /\ ~validInsertion(pop.content, pop.operation)) =>
       /\ ~pop.result.success
       /\ pop.result.content = pop.content

(***************************************************************************)
(* Claims settled last: line diff, content search, folder membership,      *)
(* history cap, validation against application, stepwise undo, bulk load   *)
(***************************************************************************)
\* the cursors at the head of every iteration of the main loop of
\* computeLineDiff and when the loop is left (or cut for lack of fuel)
RECURSIVE walkStates(_, _, _, _, _)
walkStates(original, modified, lcs, st, fuel) ==
  IF ~(st.i < Len(original) \/ st.j < Len(modified)) \/ fuel = 0
  THEN <<st>>
  ELSE <<st>> \o walkStates(original, modified, lcs,
                            walkStep(original, modified, lcs, st), fuel - 1)

\* the walk of the diff that was made last
lastWalk ==
  walkStates(Split(porig["/f"]), Split(pmodified),
             computeLCS(Split(porig["/f"]), Split(pmodified)),
             [i |-> 0, j |-> 0, lcsIdx |-> 0, changes |-> << >>],
             walkFuel(Split(porig["/f"]), Split(pmodified)))

\* C38: line diff terminates.  For every pair of line sequences the walk in
\* computeLineDiff ends, because every iteration of its main loop advances
\* at least one of the two line cursors (and none moves back or past the
\* end); hence generateLinePatches always returns.
C38_DiffTerminates ==
  pstage = "diffed" =>
    /\ \A k \in 1..(Len(lastWalk) - 1) :
         /\ lastWalk[k + 1].i >= lastWalk[k].i
         /\ lastWalk[k + 1].j >= lastWalk[k].j
         /\ lastWalk[k + 1].i + lastWalk[k + 1].j > lastWalk[k].i + lastWalk[k].j
         /\ lastWalk[k + 1].i <= Len(Split(porig["/f"]))
         /\ lastWalk[k + 1].j <= Len(Split(pmodified))
    /\ diffWalk(Split(porig["/f"]), Split(pmodified)).finished
    /\ Len(lastWalk) <= Len(Split(porig["/f"])) + Len(Split(pmodified)) + 1

\* a diff whose walk skips a line, meets the common line and skips again
C38_Witness ==
  /\ pstage = "diffed"
  /\ porig["/f"] = <<"a", NL, "b">>
  /\ pmodified = <<"b", NL, "a">>
  /\ Len(lastWalk) >= 3
  /\ Len(ppatch.operations) >= 1

\* a diff of two contents that share no line
C38_WitnessDisjoint ==
  /\ pstage = "diffed"
  /\ porig["/f"] = <<"a", NL, "a">>
  /\ pmodified = <<"b">>
  /\ computeLCS(Split(porig["/f"]), Split(pmodified)) = << >>
  /\ Len(lastWalk) = 2

\* a diff of the empty content with itself
C38_WitnessEmpty ==
  /\ pstage = "diffed"
  /\ porig["/f"] = << >>
  /\ pmodified = << >>
  /\ Len(lastWalk) = 2

\* C37: content search returns only matching files.  When the query has a
\* non-empty content string, every result returned by searchFiles carries at
\* least one content match; files whose content is empty, absent or not yet
\* loaded are not returned.
C37_ContentOnlyMatches ==
  (IsDef(squery) /\ IsDef(squery[1].content)) =>
    \A i \in 1..Len(sres) :
      /\ IsDef(sres[i].matches)
      /\ sres[i].matches[1] >= 1
      /\ Truthy(resultFiles[i].content)
      /\ matchCount(resultFiles[i].content[1], squery[1].content[1]) >= 1

\* the half of C37 that the code keeps: a file with content is returned by a
\* content search only with its matches, and at least one
C37_LoadedOnlyMatches ==
  (IsDef(squery) /\ IsDef(squery[1].content)) =>
    \A i \in 1..Len(sres) :
      Truthy(resultFiles[i].content) =>
        /\ sres[i].matches
             = Some(matchCount(resultFiles[i].content[1], squery[1].content[1]))
        /\ sres[i].matches[1] >= 1

\* getFilesInFolder(index, folderPath): the entities of the bucket's paths
\* that byPath knows (as a set of references; the array's order is left out)
getFilesInFolder(idx, folderPath) ==
  IF ~Has(idx.folders, folderPath) THEN {}
  ELSE {idx.byPath[p] : p \in {q \in idx.folders[folderPath] : Has(idx.byPath, q)}}

\* getChildren(folderPath)
getChildren(S, folderPath) == getFilesInFolder(S.index, normalizePath(folderPath))

\* C36: the two views of folder membership agree.  After any sequence of
\* createFile, createFolder, delete and rename calls, for every folder entity
\* F in the store the set of paths of getChildren(F.path) (the index's folder
\* bucket) equals the set of paths in F.children (the list walked by
\* getFileTree and by delete).
C36_FolderViewsAgree ==
  \A p \in DOMAIN files :
    heap[files[p]].type = "folder" =>
      {heap[r].path : r \in getChildren(Store, heap[files[p]].path)}
        = SeqRange(childrenOf(heap[files[p]]))

(***************************************************************************)
(* The history manager under direct edits only, with enough ids for a      *)
(* group that is longer than the history cap (CapSpec)                     *)
(***************************************************************************)
\* a direct edit of /f, then recordEdit(path, contentBefore, contentAfter)
CEdit ==
  /\ nextId <= MaxCapIds
  /\ \E c \in EditTexts :
       /\ c # hfiles["/f"]
       /\ hfiles' = setFileContent(hfiles, "/f", c)
       /\ Recorded(HistoryEntry(nextId, "edit", Undefined, Some("/f"),
                                Some(hfiles["/f"]), Some(c), currentGroupId),
                   hfiles', TRUE)

\* startGroup(): currentGroupId = generateId()
CStartGroup ==
  /\ nextId <= MaxCapIds
  /\ currentGroupId' = Some(nextId)
  /\ nextId' = nextId + 1
  /\ lastOp' = "startGroup"
  /\ hpre' = StackSizes
  /\ lastRet' = << >>
  /\ run' = NoRun
  /\ grp' = [phase |-> "open", ids |-> {}]
  /\ UNCHANGED <<hfiles, undoStack, redoStack, patchVars, storeVars, searchVars, loadVars>>

CapNext == CEdit \/ CStartGroup \/ HEndGroup \/ HUndo \/ HRedo \/ HClear

CapSpec == HistInit /\ [][CapNext]_vars

\* C35: the history cap never splits a group.  After any sequence of history
\* operations, for every group id either all entries recorded under it that
\* have not been undone are on the undo stack or none is; discarding the
\* oldest entries on cap overflow never leaves a group partially on the undo
\* stack, so undo() never undoes only part of a logical action.
C35_CapKeepsGroups ==
  grp.phase \in {"open", "closed"} =>
    \/ grp.ids \subseteq SeqRange(entryIds(undoStack))
    \/ grp.ids \cap SeqRange(entryIds(undoStack)) = {}

\* the undo half of C35: an undo that takes entries of the group that was
\* recorded last takes every entry recorded under it
C35_UndoWholeGroup ==
  [][(grp.phase \in {"open", "closed"} /\ lastOp' = "undo"
      /\ SeqRange(lastRet') \cap grp.ids # {})
     => grp.ids \subseteq SeqRange(lastRet')]_vars

\* C34: validation agrees with application.  For every patch P and file
\* contents, validatePatch(P, read).isValid is true if and only if
\* applyPatch(P, read, write) on the same contents succeeds: a patch reported
\* free of conflicts never fails to apply, and a patch that applies is never
\* reported as conflicting.
C34_ValidationAgrees ==
  pstage = "validated" => (pval.isValid <=> applyPatch(ppatch, pfiles).success)

\* the first direction of C34 alone: a patch without conflicts applies
C34_ValidThenApplies ==
  (pstage = "validated" /\ pval.isValid) => applyPatch(ppatch, pfiles).success

\* the second direction of C34 alone: a patch that applies has no conflict
C34_AppliesThenValid ==
  (pstage = "validated" /\ applyPatch(ppatch, pfiles).success) => pval.isValid

\* the number of direct edits recorded outside any group so far
stepsMade == Len(run.steps.snaps) - 1

\* the contents are those after the edits that are not undone, and the last
\* undo / redo returned one entry
steppedBack ==
  /\ hfiles = run.steps.snaps[stepsMade - run.steps.undone + 1]
  /\ lastOp \in {"undo", "redo"} => Len(lastRet) = 1

\* C33 as stated: stepwise undo / redo of ungrouped direct edits.  For N
\* edits each recorded outside any group with recordEdit(file, contentBefore,
\* contentAfter), after k <= N calls of undo() every file's content equals
\* its content after the first N-k edits, and after j <= k further calls of
\* redo() it equals its content after the first N-k+j edits; each call
\* returns exactly one entry.
C33_StepwiseUndoRedo == run.steps.on => steppedBack

\* C33 as amended: the same for k <= min(N, maxHistorySize) calls of undo()
C33_StepwiseWithinCap ==
  (run.steps.on /\ run.steps.most <= MaxHistorySize) => steppedBack

\* two edits, two undos and one redo
C33_Witness ==
  /\ run.steps.on
  /\ stepsMade = 2
  /\ run.steps.most = 2
  /\ run.steps.undone = 1
  /\ lastOp = "redo"
  /\ hfiles = run.steps.snaps[2]
  /\ hfiles # run.steps.snaps[1]

\* more edits than the history holds, and as many undos as it holds
C33_WitnessCap ==
  /\ run.steps.on
  /\ stepsMade = MaxHistorySize + 1
  /\ run.steps.undone = MaxHistorySize
  /\ lastOp = "undo"

(***************************************************************************)
(* Bulk load (virtual-fs.ts, loadFromLocalFiles).  The method is async: it *)
(* runs up to the first await of a file's text, and is resumed once per    *)
(* awaited text.  An entry is a path, a size and the outcome of text():    *)
(* the content, or none when the promise is rejected.                      *)
(***************************************************************************)
\* IGNORED_PATTERNS: /^name\// for plain names, /^\.name\// for dotted ones
IgnoredNames ==
  {"node_modules", "dist", "build", "out", "__pycache__", "venv", "coverage",
   "target", "vendor", "Pods"}

IgnoredDotNames ==
  {"git", "svn", "hg", "next", "nuxt", "pytest_cache", "mypy_cache", "venv",
   "idea", "vscode", "nyc_output"}

\* shouldIgnorePath(path): some pattern matches at the start of the string
shouldIgnorePath(path) ==
  \/ Len(path) >= 2 /\ path[1] \in IgnoredNames /\ path[2] = "/"
  \/ Len(path) >= 3 /\ path[1] = "." /\ path[2] \in IgnoredDotNames
       /\ path[3] = "/"

\* String.prototype.split(sep)
RECURSIVE splitBy(_, _)
splitBy(s, sep) ==
  IF sep \notin SeqRange(s) THEN <<s>>
  ELSE <<SubSeq(s, 1, (CHOOSE i \in 1..Len(s) :
                         s[i] = sep /\ \A j \in 1..(i - 1) : s[j] # sep) - 1)>>
       \o splitBy(SubSeq(s, (CHOOSE i \in 1..Len(s) :
                               s[i] = sep /\ \A j \in 1..(i - 1) : s[j] # sep) + 1,
                         Len(s)), sep)

\* Array.prototype.join(sep)
RECURSIVE joinBy(_, _)
joinBy(parts, sep) ==
  IF Len(parts) = 0 THEN << >>
  ELSE IF Len(parts) = 1 THEN parts[1]
  ELSE parts[1] \o <<sep>> \o joinBy(Tail(parts), sep)

\* entry.path.replace(/^\/+/, "")
RECURSIVE unrooted(_)
unrooted(path) ==
  IF Len(path) > 0 /\ path[1] = "/" THEN unrooted(Tail(path)) ELSE path

\* normalizedEntryPath.split("/").filter(p => p)
partsOf(path) ==
  SelectSeq(splitBy(unrooted(path), "/"), LAMBDA part : part # << >>)

\* first pass, inner loop: the folder paths of one entry
folderPathsOf(path) ==
  {joinBy(SubSeq(partsOf(path), 1, i), "/") : i \in 1..(Len(partsOf(path)) - 1)}

\* first pass: the Set folders
foldersOf(entries) ==
  UNION {folderPathsOf(entries[i].path) : i \in 1..Len(entries)}

\* the tokens of the model in the order of their UTF-16 code units; no token
\* is the beginning of another, so comparing token by token compares strings
CodeUnitOrder ==
  <<".", "/", "\\", "a", "b", "big", "c", "dist", "e", "lib", "node_modules",
    "png", "src", "ts", "x">>

codeUnitRank(t) == CHOOSE i \in 1..Len(CodeUnitOrder) : CodeUnitOrder[i] = t

\* a < b as strings
RECURSIVE sortsBefore(_, _)
sortsBefore(a, b) ==
  IF Len(b) = 0 THEN FALSE
  ELSE IF Len(a) = 0 THEN TRUE
  ELSE IF a[1] = b[1] THEN sortsBefore(Tail(a), Tail(b))
  ELSE codeUnitRank(a[1]) < codeUnitRank(b[1])

\* [...folders].sort()
RECURSIVE sortedPaths(_)
sortedPaths(S) ==
  IF S = {} THEN << >>
  ELSE <<CHOOSE m \in S : \A o \in S \ {m} : sortsBefore(m, o)>>
       \o sortedPaths(S \ {CHOOSE m \in S : \A o \in S \ {m} : sortsBefore(m, o)})

\* the store an operation leaves
storeOf(R) == [heap |-> R.heap, files |-> R.files, index |-> R.index]

\* clear(), but for the metadata
cleared == [heap |-> EmptyMap, files |-> EmptyMap, index |-> createFileIndex]

\* "Create folders": createFolder for every folder path that does not exist
RECURSIVE createFolders(_, _)
createFolders(S, folderPaths) ==
  IF Len(folderPaths) = 0 THEN S
  ELSE createFolders(IF ~exists(S, <<"/">> \o folderPaths[1])
                     THEN storeOf(createFolder(S, <<"/">> \o folderPaths[1]))
                     ELSE S,
                     Tail(folderPaths))

\* the text of the entry is read: !binary && entry.file.size < 1024 * 1024
needsText(entry) ==
  /\ ~isBinaryFile(baseName(normalizePath(entry.path)))
  /\ entry.size < MaxTextSize

\* the VirtualFile built for an entry, analysed when it has content
loadedFile(normalizedPath, content) ==
  IF Truthy(content)
  THEN analyzeFileImports([newFile(normalizedPath, << >>) EXCEPT !.content = content])
  ELSE [newFile(normalizedPath, << >>) EXCEPT !.content = content]

\* "Update parent" of the second pass: the path is pushed without a look at
\* the list
pushChild(objects, fileMap, parentPath, childPath) ==
  IF ~Truthy(parentPath) THEN objects
  ELSE IF ~Has(fileMap, normalizePath(parentPath[1])) THEN objects
  ELSE IF objects[fileMap[normalizePath(parentPath[1])]].type # "folder" THEN objects
  ELSE [objects EXCEPT ![fileMap[normalizePath(parentPath[1])]].children =
          Some(Append(OrElse(@, << >>), childPath))]

\* second pass, one entry from files.set on
stored(S, ref, file) ==
  [heap  |-> pushChild(Put(S.heap, ref, file), Put(S.files, file.path, ref),
                       file.parentPath, file.path),
   files |-> Put(S.files, file.path, ref),
   index |-> indexFile(S.index, ref, file)]

storedEntry(S, entry, content) ==
  stored(S, freshRef(S.heap), loadedFile(normalizePath(entry.path), content))

\* second pass from entry k on, up to the next await or the end of the loop
RECURSIVE loadFrom(_, _, _, _)
loadFrom(S, entries, k, totalSize) ==
  IF k > Len(entries)
  THEN [store |-> S, k |-> k, totalSize |-> totalSize, pc |-> "done"]
  ELSE IF shouldIgnorePath(normalizePath(entries[k].path))
  THEN loadFrom(S, entries, k + 1, totalSize)
  ELSE IF needsText(entries[k])
  THEN [store |-> S, k |-> k, totalSize |-> totalSize, pc |-> "waiting"]
  ELSE loadFrom(storedEntry(S, entries[k], Undefined), entries, k + 1,
                totalSize + entries[k].size)

\* analyzeLanguages(files): files per language other than plaintext
analyzeLanguages(S) ==
  [lang \in {getLanguage(baseName(p)) : p \in DOMAIN S.files} \ {"plaintext"} |->
     Cardinality({p \in DOMAIN S.files : getLanguage(baseName(p)) = lang})]

\* "Build metadata"
loadMetadata(S, repoName, totalSize) ==
  [name |-> repoName, source |-> "local",
   totalFiles |-> Cardinality(DOMAIN S.files), totalSize |-> totalSize,
   languages |-> analyzeLanguages(S)]

(***************************************************************************)
(* Bulk load harness: calls of loadFromLocalFiles on one store, a call     *)
(* being resumed whenever a text it waits for has arrived (LoadSpec)       *)
(***************************************************************************)
Entry(path, size, text) == [path |-> path, size |-> size, text |-> text]

\* the entries a directory may hand over: below an ignored directory (with
\* and without leading slash), nested, binary, too large, unreadable
LoadEntries ==
  <<Entry(<<"node_modules", "/", "x", ".", "ts">>, 1, Some(<<<<"export", "x">>>>)),
    Entry(<<"/", "dist", "/", "b", ".", "ts">>, 1, Some(<<<<"export", "x">>>>)),
    Entry(<<"src", "/", "a", ".", "ts">>, 1, Some(<<<<"export", "x">>>>)),
    Entry(<<"/", "src", "/", "lib", "/", "c", ".", "ts">>, 1, Some(<< >>)),
    Entry(<<"b", ".", "png">>, 1, Undefined),
    Entry(<<"/", "big", ".", "ts">>, MaxTextSize, Some(<<<<"export", "x">>>>)),
    Entry(<<"e", ".", "ts">>, 1, Undefined)>>

\* the entries with the given places, in the order of LoadEntries
RECURSIVE entriesAt(_, _)
entriesAt(I, from) ==
  IF from > Len(LoadEntries) THEN << >>
  ELSE IF from \in I THEN <<LoadEntries[from]>> \o entriesAt(I, from + 1)
  ELSE entriesAt(I, from + 1)

EntryLists ==
  {entriesAt(I, 1) : I \in {J \in SUBSET (1..Len(LoadEntries)) :
                              Cardinality(J) <= MaxEntries}}

RepoNames == <<"first", "second", "third">>

\* what a call keeps across an await: its arguments, the entry whose text it
\* waits for, the sizes added so far; during: it began while another waited
LoadCall(entries, repoName, r, during) ==
  [entries |-> entries, repoName |-> repoName, k |-> r.k,
   totalSize |-> r.totalSize, pc |-> r.pc, during |-> during]

\* the store and the metadata a run of the second pass leaves
Loaded(r, repoName) ==
  /\ heap' = r.store.heap
  /\ files' = r.store.files
  /\ index' = r.store.index
  /\ metadata' = IF r.pc = "done"
                 THEN Some(loadMetadata(r.store, repoName, r.totalSize))
                 ELSE metadata

\* loadFromLocalFiles(entries, repoName) up to its first await
LStart ==
  /\ Len(loads) < MaxLoads
  /\ \E entries \in EntryLists :
       \E r \in {loadFrom(createFolders(cleared, sortedPaths(foldersOf(entries))),
                          entries, 1, 0)} :
         /\ heap' = r.store.heap
         /\ files' = r.store.files
         /\ index' = r.store.index
         /\ metadata' = IF r.pc = "done"
                        THEN Some(loadMetadata(r.store, RepoNames[Len(loads) + 1],
                                               r.totalSize))
                        ELSE Undefined
         /\ loads' = Append(loads,
                            LoadCall(entries, RepoNames[Len(loads) + 1], r,
                                     \E c \in 1..Len(loads) : loads[c].pc = "waiting"))
  /\ UNCHANGED <<vlast, vcalls, patchVars, histVars, searchVars>>

\* a call goes on after "content = await entry.file.text()"
LResume ==
  /\ \E c \in 1..Len(loads) :
       /\ loads[c].pc = "waiting"
       /\ \E r \in {loadFrom(storedEntry(Store, loads[c].entries[loads[c].k],
                                         loads[c].entries[loads[c].k].text),
                             loads[c].entries, loads[c].k + 1,
                             loads[c].totalSize + loads[c].entries[loads[c].k].size)} :
            /\ Loaded(r, loads[c].repoName)
            /\ loads' = [loads EXCEPT ![c] = LoadCall(loads[c].entries,
                                                      loads[c].repoName, r,
                                                      loads[c].during)]
  /\ UNCHANGED <<vlast, vcalls, patchVars, histVars, searchVars>>

LoadNext == LStart \/ LResume

LoadSpec == StoreInit /\ [][LoadNext]_vars

(***************************************************************************)
(* Claims about the bulk load (LoadSpec)                                   *)
(***************************************************************************)
\* one call was made and has completed
loadedOnce == Len(loads) = 1 /\ loads[1].pc = "done"

\* the entry lies under a directory the ignore rules name, its path written
\* with or without a leading slash
underIgnored(entry) == shouldIgnorePath(unrooted(entry.path))

\* the paths of the folders above a path, nearest first
RECURSIVE foldersAbove(_)
foldersAbove(path) ==
  IF ~IsDef(getParentPath(path)) THEN << >>
  ELSE <<getParentPath(path)[1]>> \o foldersAbove(getParentPath(path)[1])

\* the entity at path is a child of an existing folder one level up, or
\* stands at the root
linkedUp(path) ==
  IsDef(getParentPath(path)) =>
    /\ Has(files, getParentPath(path)[1])
    /\ heap[files[getParentPath(path)[1]]].type = "folder"
    /\ heap[files[path]].parentPath = getParentPath(path)
    /\ path \in SeqRange(OrElse(heap[files[getParentPath(path)[1]]].children, << >>))

\* the first half of C31: no file entity for an entry under an ignored
\* directory
C31_IgnoredNotLoaded ==
  loadedOnce =>
    \A i \in 1..Len(loads[1].entries) :
      underIgnored(loads[1].entries[i]) =>
        ~Has(files, normalizePath(loads[1].entries[i].path))

\* the second half of C31: every loaded file's ancestor folders exist as
\* folder entities linked parent-to-child
C31_AncestorsLinked ==
  loadedOnce =>
    \A p \in DOMAIN files :
      heap[files[p]].type = "file" =>
        /\ linkedUp(p)
        /\ \A k \in 1..Len(foldersAbove(p)) : linkedUp(foldersAbove(p)[k])

\* C31: bulk load honours the ignore rules.  After loadFromLocalFiles(
\* entries, name) completes, the store contains no file entity for any entry
\* whose path lies under a directory matched by the ignore rules
\* (node_modules/, .git/, dist/, build/, ...), whether the entry's path is
\* given with or without a leading slash; and every loaded file's ancestor
\* folders exist as folder entities linked parent-to-child.
C31_BulkLoadIgnores == C31_IgnoredNotLoaded /\ C31_AncestorsLinked

\* the entities of a store by path
entitiesOf(S) == [p \in DOMAIN S.files |-> S.heap[S.files[p]]]

\* a call of loadFromLocalFiles that nothing interleaves with: the store it
\* leaves and the sizes it adds up
RECURSIVE ranAlone(_, _)
ranAlone(r, entries) ==
  IF r.pc = "done" THEN r
  ELSE ranAlone(loadFrom(storedEntry(r.store, entries[r.k], entries[r.k].text),
                         entries, r.k + 1, r.totalSize + entries[r.k].size),
                entries)

loadedAlone(entries) ==
  ranAlone(loadFrom(createFolders(cleared, sortedPaths(foldersOf(entries))),
                    entries, 1, 0),
           entries)

\* the store and the metadata are those of the given call run on its own
describes(call) ==
  /\ entitiesOf(Store) = entitiesOf(loadedAlone(call.entries).store)
  /\ index = loadedAlone(call.entries).store.index
  /\ metadata = Some(loadMetadata(loadedAlone(call.entries).store, call.repoName,
                                  loadedAlone(call.entries).totalSize))

\* C32: store operations are atomic with respect to each other: no other
\* call on the same store can interleave.  In particular, if a second
\* loadFromLocalFiles call starts while a first one is suspended waiting for
\* a file's text, then once both have completed the store contains exactly
\* the entities of the second call's entries (none from the first) and the
\* metadata describes the second load.
C32_LoadsAtomic ==
  (Len(loads) = 2 /\ loads[1].pc = "done" /\ loads[2].pc = "done"
   /\ loads[2].during)
    => describes(loads[2])

\* C32 for calls that do not overlap: the second call began after the first
\* had completed
C32_LoadsInTurn ==
  (Len(loads) = 2 /\ loads[1].pc = "done" /\ loads[2].pc = "done"
   /\ ~loads[2].during)
    => describes(loads[2])

====
